---- MODULE Spec2Model ----
(***************************************************************************)
(* Scheduled-payment lifecycle of the finance tracker worker               *)
(* (src/src/worker/routes/auth.ts, second half: scheduledPaymentsRouter),  *)
(* the reads of the dashboard router that surface scheduled payments       *)
(* (src/unnamed/part_009) and the ledger rows settlement posts; the        *)
(* balance views of accounts (accounts.ts, transactions.ts) and the        *)
(* progress views of goals, debts and loans (account-types.ts, debts.ts,   *)
(* loans.ts).                                                              *)
(*                                                                         *)
(* Dates are the strings YYYY-MM-DD of the code, written as the integer    *)
(* YYYYMMDD: the order of these integers is the lexicographic order of     *)
(* the strings, which is what the store compares.  A null column is 0 for  *)
(* dates and amounts, NoId / NoStr / NoFreq for text columns.  The columns *)
(* description, createdAt and updatedAt are not modelled.                  *)
(***************************************************************************)
EXTENDS Integers, Sequences, FiniteSets, TLC

\* ------------------------------------------------------------------ bounds
MaxPayments == 3      \* scheduled-payment ids ever allocated
MaxTx == 2            \* ledger rows ever allocated
MaxRequests == 3      \* requests served in one behaviour

\* ------------------------------------------------------------- null values
NoId == "none"
NoStr == "nostr"
NoFreq == "nofreq"
NoDate == 0
NoAmount == 0
NoIds == {}

\* ------------------------------------------------------------------ owners
Users == {"u1", "u2"}

\* rows of the tables the handlers only read: id -> owner
accounts == [a \in {"a1", "a2", "a3", "a4"} |-> IF a = "a2" THEN "u2" ELSE "u1"]
categories == [c \in {"c1"} |-> "u1"]
debts == [d \in {"d1", "d2", "d3", "d4"} |-> IF d = "d3" THEN "u2" ELSE "u1"]
loans == [l \in {"l1"} |-> "u2"]
goals == [g \in {"g1", "g2", "g3"} |-> IF g = "g3" THEN "u2" ELSE "u1"]

Statuses == {"pending", "paid", "cancelled", "overdue"}

\* ------------------------------------------------------------ calendar
IsLeap(y) == (y % 4 = 0 /\ y % 100 # 0) \/ y % 400 = 0

DaysInMonth(y, m) ==
  IF m = 2 THEN (IF IsLeap(y) THEN 29 ELSE 28)
  ELSE IF m \in {4, 6, 9, 11} THEN 30 ELSE 31

YearOf(date) == date \div 10000
MonthOf(date) == (date \div 100) % 100
DayOf(date) == date % 100

\* Date fields out of range carry into the next month or year (ECMAScript
\* MakeDay, as used by Date.prototype.setDate / setMonth / setFullYear),
\* then the date is formatted back (toISOString().split("T")[0]).
RECURSIVE MakeDay(_, _, _)
MakeDay(y, m, d) ==
  IF m > 12 THEN MakeDay(y + 1, m - 12, d)
  ELSE IF m < 1 THEN MakeDay(y - 1, m + 12, d)
  ELSE IF d > DaysInMonth(y, m) THEN MakeDay(y, m + 1, d - DaysInMonth(y, m))
  ELSE IF d < 1 THEN
    LET py == IF m = 1 THEN y - 1 ELSE y
        pm == IF m = 1 THEN 12 ELSE m - 1
    IN MakeDay(py, pm, d + DaysInMonth(py, pm))
  ELSE y * 10000 + m * 100 + d

AddDays(date, n) == MakeDay(YearOf(date), MonthOf(date), DayOf(date) + n)

getNextDueDate(currentDate, frequency) ==
  LET y == YearOf(currentDate)
      m == MonthOf(currentDate)
      d == DayOf(currentDate)
  IN CASE frequency = "weekly" -> MakeDay(y, m, d + 7)
       [] frequency = "biweekly" -> MakeDay(y, m, d + 14)
       [] frequency = "monthly" -> MakeDay(y, m + 1, d)
       [] frequency = "quarterly" -> MakeDay(y, m + 3, d)
       [] frequency = "yearly" -> MakeDay(y + 1, m, d)
       [] OTHER -> MakeDay(y, m, d)

\* ------------------------------------------------------------ the clock
\* the days on which requests arrive, in order
Days == <<20250131, 20250212>>

\* ------------------------------------------------------------ request bodies
\* bodies accepted by createScheduledPaymentSchema, defaults filled in
createScheduledPaymentSchema ==
  { [name |-> "rent", amount |-> 100, currency |-> "PEN", dueDate |-> 20250131,
     categoryId |-> "c1", accountId |-> "a1", debtId |-> NoId, loanId |-> NoId,
     debtInstallmentId |-> "i1", isRecurring |-> TRUE,
     recurringFrequency |-> "monthly", priority |-> "high", tags |-> "home",
     notes |-> "landlord", reminderDays |-> 5],
    [name |-> "gym", amount |-> 40, currency |-> "USD", dueDate |-> 20250210,
     categoryId |-> NoId, accountId |-> NoId, debtId |-> NoId, loanId |-> NoId,
     debtInstallmentId |-> NoId, isRecurring |-> TRUE,
     recurringFrequency |-> "weekly", priority |-> "medium", tags |-> NoStr,
     notes |-> NoStr, reminderDays |-> 3],
    [name |-> "quota", amount |-> 100, currency |-> "PEN", dueDate |-> 20250210,
     categoryId |-> NoId, accountId |-> "a2", debtId |-> NoId, loanId |-> "l1",
     debtInstallmentId |-> "i1", isRecurring |-> FALSE,
     recurringFrequency |-> "monthly", priority |-> "urgent", tags |-> NoStr,
     notes |-> NoStr, reminderDays |-> 0],
    [name |-> "card", amount |-> 40, currency |-> "PEN", dueDate |-> 20250131,
     categoryId |-> NoId, accountId |-> NoId, debtId |-> "d1", loanId |-> NoId,
     debtInstallmentId |-> "i1", isRecurring |-> TRUE,
     recurringFrequency |-> NoFreq, priority |-> "low", tags |-> NoStr,
     notes |-> NoStr, reminderDays |-> 3] }

\* bodies accepted by markPaymentAsPaidSchema (createNextRecurrence
\* defaults to true)
markPaymentAsPaidSchema ==
  { [paidDate |-> NoDate, paidAmount |-> NoAmount,
     createNextRecurrence |-> TRUE],
    [paidDate |-> 20250128, paidAmount |-> 70, createNextRecurrence |-> TRUE],
    [paidDate |-> NoDate, paidAmount |-> NoAmount,
     createNextRecurrence |-> FALSE] }

\* bodies accepted by updateScheduledPaymentSchema: every key is optional,
\* a body is the function from the keys it supplies to their values
updateScheduledPaymentSchema ==
  {[k \in {"status"} |-> s] : s \in Statuses}
    \cup {[k \in {"paidDate", "paidAmount"} |->
             IF k = "paidDate" THEN NoDate ELSE NoAmount]}
    \cup {[k \in {"dueDate", "accountId"} |->
             IF k = "dueDate" THEN 20250305 ELSE "a1"]}

VARIABLES
  scheduledPayments,  \* table scheduled_payments: id -> row
  transactions,       \* table transactions: id -> row
  transfers,          \* table transfers, in order of insertion
  dashboardConfig,    \* user_settings.dashboardConfig: user -> configuration
  clock,              \* index in Days of the current day
  uuids,              \* <<payment ids handed out, ledger ids handed out>>
  last,               \* the last request and its response
  served,             \* number of requests served so far
  inflight            \* handler -> the settle request it is serving

vars == <<scheduledPayments, transactions, transfers, dashboardConfig, clock,
          uuids, last, served, inflight>>

\* a request is served from its first to its last statement while no other
\* handler runs
Served ==
  /\ served < MaxRequests
  /\ served' = served + 1
  /\ UNCHANGED inflight

today == Days[clock]

PaymentIds == 1 .. MaxPayments

\* the worker invocations that may run at the same time
Handlers == {1, 2}

\* an invocation that has not received its request
Idle == [pc |-> "idle", userId |-> "u1", id |-> 0, paidDate |-> NoDate,
         paidAmount |-> NoAmount, createsNext |-> FALSE, payment |-> << >>,
         code |-> 0, transaction |-> 0, nextPayment |-> 0]

\* crypto.randomUUID(): the next id that was never handed out
newPaymentId == uuids[1] + 1
newTxId == uuids[2] + 1

\* the body {} of POST /:id/pay
NoBody == [paidDate |-> NoDate, paidAmount |-> NoAmount,
           createNextRecurrence |-> TRUE]

\* the response of a request: HTTP status, the rows or row a read returns,
\* and for POST /:id/pay the ids of data.transaction and data.nextPayment
Response(op, userId, id, code, rows, tx, nextPayment, was) ==
  [op |-> op, userId |-> userId, id |-> id, code |-> code, rows |-> rows,
   transaction |-> tx, nextPayment |-> nextPayment, was |-> was,
   today |-> today, body |-> NoBody]

\* the response of POST /:id/pay, with the body of the request
PayResponse(userId, id, body, code, tx, nextPayment, was) ==
  [Response("pay", userId, id, code, {}, tx, nextPayment, was)
     EXCEPT !.body = body]

\* a response that is only a status code
Status(op, userId, id, code) ==
  Response(op, userId, id, code, {}, 0, 0, "none")

\* the response of a read: the rows it returns
Rows(op, userId, id, rows) ==
  Response(op, userId, id, 200, rows, 0, 0, "none")

NoRows == {}

\* a row as a read returns it
View(id, p) == [id |-> id, status |-> p.status, dueDate |-> p.dueDate]

\* configuration used when the user has no stored one (dashboard GET /)
defaultConfig ==
  [showScheduledPayments |-> TRUE, scheduledPaymentsDays |-> 7,
   balanceAccountIds |-> NoIds]

Init ==
  /\ scheduledPayments = << >>
  /\ transactions = << >>
  /\ transfers = << >>
  /\ dashboardConfig = [u \in Users |-> defaultConfig]
  /\ clock = 1
  /\ uuids = <<0, 0>>
  /\ served = 0
  /\ inflight = [h \in Handlers |-> Idle]
  /\ last = Response("none", "u1", 0, 0, NoRows, 0, 0, "none")

\* ------------------------------------------------------------ clock
Tick ==
  /\ clock < Len(Days)
  /\ clock' = clock + 1
  /\ UNCHANGED <<scheduledPayments, transactions, dashboardConfig, transfers, uuids, last,
                 served, inflight>>

\* ------------------------------------------------------------ overdue sweep
\* mutant: the update is not scoped to the requesting user
markOverduePayments_anyUser(table, userId, day) ==
  [id \in DOMAIN table |->
     IF table[id].status = "pending" /\ table[id].dueDate <= day
     THEN [table[id] EXCEPT !.status = "overdue"]
     ELSE table[id]]

\* mutant: the update does not look at the status of the row
markOverduePayments_anyStatus(table, userId, day) ==
  [id \in DOMAIN table |->
     IF table[id].userId = userId /\ table[id].dueDate <= day
     THEN [table[id] EXCEPT !.status = "overdue"]
     ELSE table[id]]

\* mutant: the update flips the overdue flag of every due row of the user
markOverduePayments_flip(table, userId, day) ==
  [id \in DOMAIN table |->
     IF /\ table[id].userId = userId
        /\ table[id].status \in {"pending", "overdue"}
        /\ table[id].dueDate <= day
     THEN [table[id] EXCEPT
             !.status = IF @ = "pending" THEN "overdue" ELSE "pending"]
     ELSE table[id]]

\* UPDATE scheduled_payments SET status = 'overdue'
\*   WHERE user_id = userId AND status = 'pending' AND due_date <= today
markOverduePayments(table, userId, day) ==
  [id \in DOMAIN table |->
     IF /\ table[id].userId = userId
        /\ table[id].status = "pending"
        /\ table[id].dueDate <= day
     THEN [table[id] EXCEPT !.status = "overdue"]
     ELSE table[id]]


\* ------------------------------------------------------------ reads
\* SELECT ... WHERE id = :id AND user_id = :userId LIMIT 1
Owned(id, userId) ==
  id \in DOMAIN scheduledPayments /\ scheduledPayments[id].userId = userId

\* query strings accepted by scheduledPaymentFiltersSchema ("any" and NoDate:
\* the filter is absent; includeOverdue defaults to true)
scheduledPaymentFiltersSchema ==
  { [status |-> "any", priority |-> "any", startDate |-> NoDate,
     endDate |-> NoDate, includeOverdue |-> TRUE],
    [status |-> "pending", priority |-> "high", startDate |-> 20250131,
     endDate |-> 20250210, includeOverdue |-> FALSE] }

Matches(p, userId, filters) ==
  /\ p.userId = userId
  /\ filters.status # "any" => p.status = filters.status
  /\ filters.priority # "any" => p.priority = filters.priority
  /\ filters.startDate # NoDate => p.dueDate >= filters.startDate
  /\ filters.endDate # NoDate => p.dueDate <= filters.endDate
  /\ (~filters.includeOverdue /\ filters.status = "any")
        => p.status \in {"pending", "paid"}

\* GET /scheduled-payments
List(userId, filters) ==
  /\ Served
  /\ LET swept == markOverduePayments(scheduledPayments, userId, today)
     IN /\ scheduledPayments' = swept
        /\ last' = Rows("list", userId, 0,
             {View(id, swept[id]) :
                id \in {i \in DOMAIN swept : Matches(swept[i], userId, filters)}})
        /\ UNCHANGED <<transactions, dashboardConfig, transfers, clock, uuids>>

\* the rows "pending or overdue, due on or before endDate" of a user
Due(table, userId, endDate) ==
  {id \in DOMAIN table :
     /\ table[id].userId = userId
     /\ table[id].status \in {"pending", "overdue"}
     /\ table[id].dueDate <= endDate}

\* values of the query parameter days of GET /upcoming (default 7)
UpcomingDays == {7}

\* GET /scheduled-payments/upcoming
Upcoming(userId, days) ==
  /\ Served
  /\ LET swept == markOverduePayments(scheduledPayments, userId, today)
     IN /\ scheduledPayments' = swept
        /\ last' = Rows("upcoming", userId, 0,
             {View(id, swept[id]) : id \in Due(swept, userId, AddDays(today, days))})
        /\ UNCHANGED <<transactions, dashboardConfig, transfers, clock, uuids>>

\* GET /scheduled-payments/:id
GetOne(userId, id) ==
  /\ Served
  /\ last' = IF Owned(id, userId)
             THEN Rows("get", userId, id, {View(id, scheduledPayments[id])})
             ELSE Status("get", userId, id, 404)
  /\ UNCHANGED <<scheduledPayments, transactions, dashboardConfig, transfers, clock, uuids>>

\* ------------------------------------------------------------ balances
\* the columns of the rows of table accounts that the balance views read
accountRow ==
  [a \in DOMAIN accounts |->
     CASE a = "a1" -> [initialBalance |-> 1000, isActive |-> TRUE,
                       includeInTotal |-> TRUE]
       [] a = "a2" -> [initialBalance |-> 0, isActive |-> TRUE,
                       includeInTotal |-> TRUE]
       [] a = "a3" -> [initialBalance |-> 500, isActive |-> TRUE,
                       includeInTotal |-> FALSE]
       [] OTHER -> [initialBalance |-> 70, isActive |-> FALSE,
                    includeInTotal |-> TRUE]]

RECURSIVE SumAmount(_, _)
SumAmount(table, ids) ==
  IF ids = {} THEN 0
  ELSE LET id == CHOOSE i \in ids : TRUE
       IN table[id].amount + SumAmount(table, ids \ {id})

\* SUM(COALESCE(fee, 0)) over rows of table transfers
RECURSIVE SumFee(_, _)
SumFee(table, ids) ==
  IF ids = {} THEN 0
  ELSE LET id == CHOOSE i \in ids : TRUE
       IN table[id].fee + SumFee(table, ids \ {id})

\* the sum of a column of balances over some accounts (reduce)
RECURSIVE SumBalance(_, _)
SumBalance(balance, ids) ==
  IF ids = {} THEN 0
  ELSE LET id == CHOOSE i \in ids : TRUE
       IN balance[id] + SumBalance(balance, ids \ {id})

\* SELECT COALESCE(SUM(amount), 0) FROM transactions
\*   WHERE account_id = :accountId AND user_id = :userId AND type IN types
sumTransactions(accountId, userId, types) ==
  SumAmount(transactions,
            {id \in DOMAIN transactions :
               /\ transactions[id].accountId = accountId
               /\ transactions[id].userId = userId
               /\ transactions[id].type \in types})

\* SELECT COALESCE(SUM(amount), 0) FROM transfers
\*   WHERE to_account_id = :accountId AND user_id = :userId
transfersIn(accountId, userId) ==
  SumAmount(transfers,
            {i \in DOMAIN transfers :
               /\ transfers[i].toAccountId = accountId
               /\ transfers[i].userId = userId})

transfersOut_noFee(accountId, userId) ==
  SumAmount(transfers,
            {i \in DOMAIN transfers :
               /\ transfers[i].fromAccountId = accountId
               /\ transfers[i].userId = userId})

\* SELECT COALESCE(SUM(amount + COALESCE(fee, 0)), 0) FROM transfers
\*   WHERE from_account_id = :accountId AND user_id = :userId
transfersOut(accountId, userId) ==
  LET ids == {i \in DOMAIN transfers :
                /\ transfers[i].fromAccountId = accountId
                /\ transfers[i].userId = userId}
  IN SumAmount(transfers, ids) + SumFee(transfers, ids)

\* GET /accounts: the balance of one account of the list
accountsListBalance(accountId, userId) ==
  accountRow[accountId].initialBalance
    + sumTransactions(accountId, userId, {"income"})
    - sumTransactions(accountId, userId, {"expense"})
    + transfersIn(accountId, userId)
    - transfersOut(accountId, userId)

\* GET /accounts: accounts with their balances, and totalBalance
accountsWithBalances(userId, includeInactive) ==
  LET accountsList == {a \in DOMAIN accounts :
                         /\ accounts[a] = userId
                         /\ includeInactive \/ accountRow[a].isActive}
      balance == [a \in accountsList |-> accountsListBalance(a, userId)]
  IN [accounts |-> balance,
      totalBalance |->
        SumBalance(balance, {a \in accountsList :
                               /\ accountRow[a].includeInTotal
                               /\ accountRow[a].isActive})]

\* GET /accounts/:id: the balance of the account
accountBalance(accountId, userId) ==
  accountRow[accountId].initialBalance
    + sumTransactions(accountId, userId, {"income"})
    - sumTransactions(accountId, userId, {"expense"})

\* the balance the dashboard router computes for an account
calculateAccountBalance(accountId, userId, initialBalance) ==
  initialBalance
    + sumTransactions(accountId, userId, {"income"})
    - sumTransactions(accountId, userId,
        {"expense", "debt_payment", "goal_contribution", "loan_payment"})

\* GET /dashboard, section 1: the accounts with their balances, and
\* totalBalance
dashboardBalance(userId, config) ==
  LET rawAccounts == {a \in DOMAIN accounts :
                        /\ accounts[a] = userId
                        /\ accountRow[a].isActive
                        /\ config.balanceAccountIds # NoIds =>
                             a \in config.balanceAccountIds}
      balance == [a \in rawAccounts |->
                    calculateAccountBalance(a, userId,
                                            accountRow[a].initialBalance)]
  IN [accounts |-> balance, totalBalance |-> SumBalance(balance, rawAccounts)]

\* GET /dashboard/summary: totalBalance
summaryBalance(userId) ==
  LET rawAccounts == {a \in DOMAIN accounts :
                        accounts[a] = userId /\ accountRow[a].isActive}
      balance == [a \in rawAccounts |->
                    calculateAccountBalance(a, userId,
                                            accountRow[a].initialBalance)]
  IN [totalBalance |-> SumBalance(balance, rawAccounts)]

\* the columns of the rows of table debts that bulk generation and the views
\* read; a debt without totalInstallments or dueDate holds null there
debtRow ==
  [d \in DOMAIN debts |->
     CASE d = "d1" -> [principalAmount |-> 1200, totalInstallments |-> 12,
                       startDate |-> 20250101, dueDate |-> NoDate,
                       currency |-> "PEN", status |-> "active"]
       [] d = "d2" -> [principalAmount |-> 100, totalInstallments |-> 3,
                       startDate |-> 20250110, dueDate |-> 20250131,
                       currency |-> "USD", status |-> "paid"]
       [] d = "d3" -> [principalAmount |-> 50, totalInstallments |-> 0,
                       startDate |-> 20240229, dueDate |-> NoDate,
                       currency |-> "PEN", status |-> "active"]
       [] OTHER -> [principalAmount |-> 90, totalInstallments |-> 2,
                    startDate |-> 20241215, dueDate |-> NoDate,
                    currency |-> "PEN", status |-> "active"]]

\* ------------------------------------------------------------ progress
\* the columns of the rows of tables goals and loans that the views read
goalRow ==
  [g \in DOMAIN goals |->
     CASE g = "g1" -> [targetAmount |-> 100, targetDate |-> 20250630,
                       isActive |-> TRUE, isCompleted |-> FALSE]
       [] g = "g2" -> [targetAmount |-> 200, targetDate |-> 20241231,
                       isActive |-> TRUE, isCompleted |-> FALSE]
       [] OTHER -> [targetAmount |-> 80, targetDate |-> NoDate,
                    isActive |-> TRUE, isCompleted |-> FALSE]]

loanRow == [l \in DOMAIN loans |-> [principalAmount |-> 15]]

\* a / b, a number that need not be whole, as the pair of its operands; the
\* rounding of the quotient to a double is not modelled
Quotient(a, b) == [num |-> a, den |-> b]

\* a suggestedMonthlyAmount that is null
NoQuotient == [num |-> 0, den |-> 0]

\* (a / b) * 100
Percent(a, b) == Quotient(a * 100, b)

\* Math.min(progress, 100)
Min100(q) == IF q.num > 100 * q.den THEN Quotient(100, 1) ELSE q

\* Math.round(progress): the nearest integer, halves upwards
Round(q) == Quotient((2 * q.num + q.den) \div (2 * q.den), 1)

\* Math.max(0, remainingAmount)
Max0(n) == IF n > 0 THEN n ELSE 0

\* mutant: the sum is taken over the rows of every user
sumLinked_anyUser(userId, column, ref, type) ==
  SumAmount(transactions,
            {id \in DOMAIN transactions :
               /\ transactions[id][column] = ref
               /\ transactions[id].type = type})

\* SELECT COALESCE(SUM(amount), 0) FROM transactions
\*   WHERE user_id = :userId AND <column> = :ref AND type = :type
sumLinked(userId, column, ref, type) ==
  SumAmount(transactions,
            {id \in DOMAIN transactions :
               /\ transactions[id].userId = userId
               /\ transactions[id][column] = ref
               /\ transactions[id].type = type})

\* months from the current month to the month of the target date, at least 1
monthsRemaining(targetDate, day) ==
  LET months == (YearOf(targetDate) - YearOf(day)) * 12
                  + (MonthOf(targetDate) - MonthOf(day))
  IN IF months > 1 THEN months ELSE 1

\* GET /goals: a goal of the list
goalWithProgress(goalId, userId, day) ==
  LET goal == goalRow[goalId]
      currentAmount == sumLinked(userId, "goalId", goalId, "goal_contribution")
      remainingAmount == goal.targetAmount - currentAmount
      progress == Percent(currentAmount, goal.targetAmount)
  IN [targetAmount |-> goal.targetAmount,
      currentAmount |-> currentAmount,
      remainingAmount |-> Max0(remainingAmount),
      progress |-> Min100(progress),
      suggestedMonthlyAmount |->
        IF goal.targetDate # NoDate /\ ~goal.isCompleted
        THEN Quotient(remainingAmount, monthsRemaining(goal.targetDate, day))
        ELSE NoQuotient]

\* GET /goals/:id: the goal
goalDetail(goalId, userId) ==
  LET goal == goalRow[goalId]
      currentAmount == sumLinked(userId, "goalId", goalId, "goal_contribution")
      remainingAmount == goal.targetAmount - currentAmount
  IN [targetAmount |-> goal.targetAmount,
      currentAmount |-> currentAmount,
      remainingAmount |-> Max0(remainingAmount),
      progress |-> Min100(Percent(currentAmount, goal.targetAmount))]

\* GET /debts and GET /debts/:id: a debt with its paid amount
debtWithPaidAmount(debtId, userId) ==
  LET debt == debtRow[debtId]
      paidAmount == sumLinked(userId, "debtId", debtId, "debt_payment")
      remainingAmount == debt.principalAmount - paidAmount
      progress == Percent(paidAmount, debt.principalAmount)
  IN [principalAmount |-> debt.principalAmount,
      paidAmount |-> paidAmount,
      remainingAmount |-> remainingAmount,
      progress |-> Min100(progress)]

\* GET /loans and GET /loans/:id: a loan with its received amount
loanWithReceivedAmount(loanId, userId) ==
  LET loan == loanRow[loanId]
      receivedAmount == sumLinked(userId, "loanId", loanId, "loan_payment")
      remainingAmount == loan.principalAmount - receivedAmount
      progress == Percent(receivedAmount, loan.principalAmount)
  IN [principalAmount |-> loan.principalAmount,
      receivedAmount |-> receivedAmount,
      remainingAmount |-> remainingAmount,
      progress |-> Min100(progress)]

\* GET /dashboard, section 5: the active goals that are not completed
dashboardGoals(userId) ==
  LET rawGoals == {g \in DOMAIN goals :
                     /\ goals[g] = userId
                     /\ goalRow[g].isActive
                     /\ ~goalRow[g].isCompleted}
  IN [goals |->
        [g \in rawGoals |->
           LET currentAmount ==
                 sumLinked(userId, "goalId", g, "goal_contribution")
           IN [targetAmount |-> goalRow[g].targetAmount,
               currentAmount |-> currentAmount,
               progress |-> Round(Percent(currentAmount, goalRow[g].targetAmount)),
               remaining |-> goalRow[g].targetAmount - currentAmount]]]

\* GET /dashboard, section 7: the summary of the debts of the user
debtsSummary(userId) ==
  LET debtsList == {d \in DOMAIN debts : debts[d] = userId}
      active == {d \in debtsList : debtRow[d].status = "active"}
      owed == [d \in active |->
                 debtRow[d].principalAmount
                   - sumLinked(userId, "debtId", d, "debt_payment")]
  IN [total |-> Cardinality(debtsList),
      active |-> Cardinality(active),
      totalOwed |-> SumBalance(owed, active)]

\* GET /dashboard, sections 1 (balance), 5 (goals) and 6 (upcoming payments)
Dashboard(userId) ==
  /\ Served
  /\ LET config == dashboardConfig[userId]
         paymentsDaysAhead == IF config.scheduledPaymentsDays # 0
                              THEN config.scheduledPaymentsDays ELSE 7
         swept == markOverduePayments(scheduledPayments, userId, today)
     IN IF config.showScheduledPayments # FALSE
        THEN /\ scheduledPayments' = swept
             /\ last' = Rows("dashboard", userId, 0,
                  {View(id, swept[id]) :
                     id \in Due(swept, userId, AddDays(today, paymentsDaysAhead))})
                  @@ dashboardBalance(userId, config)
                  @@ dashboardGoals(userId)
             /\ UNCHANGED <<transactions, dashboardConfig, transfers, clock, uuids>>
        ELSE /\ last' = Rows("dashboard", userId, 0, {})
                          @@ dashboardBalance(userId, config)
                          @@ dashboardGoals(userId)
             /\ UNCHANGED <<scheduledPayments, transactions, dashboardConfig, transfers,
                            clock, uuids>>

\* GET /dashboard/summary: totalBalance and pendingPayments {count, total}
Summary(userId) ==
  /\ Served
  /\ LET ids == Due(scheduledPayments, userId, AddDays(today, 7))
     IN /\ last' = Rows("summary", userId, 0,
             {[count |-> Cardinality(ids),
               total |-> SumAmount(scheduledPayments, ids)]})
             @@ summaryBalance(userId)
        /\ UNCHANGED <<scheduledPayments, transactions, dashboardConfig, transfers, clock,
                       uuids>>

\* bodies of PATCH /settings/dashboard accepted by dashboardConfigSchema
dashboardConfigSchema ==
  [showScheduledPayments : BOOLEAN, scheduledPaymentsDays : {7},
   balanceAccountIds : {NoIds}]

\* PATCH /settings/dashboard: the parsed body is stored as the configuration
PatchDashboard(userId, body) ==
  /\ Served
  /\ dashboardConfig' = [dashboardConfig EXCEPT ![userId] = body]
  /\ last' = Status("config", userId, 0, 200)
  /\ UNCHANGED <<scheduledPayments, transactions, transfers, clock, uuids>>

\* ------------------------------------------------------------ writes
\* a reference is accepted when it is absent or names a row of the requester
RefOk(ref, table, userId) ==
  ref = NoId \/ (ref \in DOMAIN table /\ table[ref] = userId)

\* the row POST /scheduled-payments inserts for a body
newPayment(userId, body) ==
  [userId |-> userId, name |-> body.name, amount |-> body.amount,
   currency |-> body.currency, dueDate |-> body.dueDate, status |-> "pending",
   paidDate |-> NoDate, paidAmount |-> NoAmount,
   categoryId |-> body.categoryId, accountId |-> body.accountId,
   debtId |-> body.debtId, loanId |-> body.loanId,
   debtInstallmentId |-> body.debtInstallmentId,
   isRecurring |-> body.isRecurring,
   recurringFrequency |-> body.recurringFrequency, priority |-> body.priority,
   tags |-> body.tags, notes |-> body.notes, reminderDays |-> body.reminderDays]

\* INSERT INTO scheduled_payments
InsertPayment(table, id, row) ==
  [i \in DOMAIN table \cup {id} |-> IF i = id THEN row ELSE table[i]]

\* POST /scheduled-payments
Create(userId, body) ==
  /\ Served
  /\ IF /\ RefOk(body.categoryId, categories, userId)
        /\ RefOk(body.accountId, accounts, userId)
        /\ RefOk(body.debtId, debts, userId)
        /\ RefOk(body.loanId, loans, userId)
     THEN /\ newPaymentId <= MaxPayments
          /\ scheduledPayments' = InsertPayment(scheduledPayments, newPaymentId,
                                                newPayment(userId, body))
          /\ uuids' = <<newPaymentId, uuids[2]>>
          /\ last' = Status("create", userId, newPaymentId, 201)
          /\ UNCHANGED <<transactions, dashboardConfig, transfers, clock>>
     ELSE /\ last' = Status("create", userId, 0, 404)
          /\ UNCHANGED <<scheduledPayments, transactions, dashboardConfig, transfers, clock,
                         uuids>>

\* UPDATE scheduled_payments SET ...body WHERE id = :id AND user_id = :userId
ApplyPatch(row, body) ==
  [k \in DOMAIN row |-> IF k \in DOMAIN body THEN body[k] ELSE row[k]]

\* PATCH /scheduled-payments/:id
Patch(userId, id, body) ==
  /\ Served
  /\ IF Owned(id, userId)
     THEN /\ scheduledPayments' =
               [scheduledPayments EXCEPT ![id] = ApplyPatch(@, body)]
          /\ last' = Status("patch", userId, id, 200)
          /\ UNCHANGED <<transactions, dashboardConfig, transfers, clock, uuids>>
     ELSE /\ last' = Status("patch", userId, id, 404)
          /\ UNCHANGED <<scheduledPayments, transactions, dashboardConfig, transfers, clock,
                         uuids>>

\* ---- POST /scheduled-payments/:id/pay, store round trip by round trip
\* paidDate = body.paidDate || today, paidAmount = body.paidAmount || amount
PaidDate(body, day) == IF body.paidDate # NoDate THEN body.paidDate ELSE day
PaidAmount(body, payment) ==
  IF body.paidAmount # NoAmount THEN body.paidAmount ELSE payment.amount

\* UPDATE scheduled_payments SET status = 'paid', paidDate, paidAmount
\*   WHERE id = :id
MarkPaid(table, id, paidDate, paidAmount) ==
  [i \in DOMAIN table |->
     IF i = id
     THEN [table[i] EXCEPT !.status = "paid", !.paidDate = paidDate,
                           !.paidAmount = paidAmount]
     ELSE table[i]]

\* payment.isRecurring && payment.recurringFrequency &&
\*   body.createNextRecurrence !== false
CreatesNext(payment, body) ==
  /\ payment.isRecurring
  /\ payment.recurringFrequency # NoFreq
  /\ body.createNextRecurrence # FALSE

\* mutant: the next payment is a copy that keeps the installment link
nextPayment_keepsInstallment(payment, userId) ==
  [payment EXCEPT
     !.userId = userId,
     !.dueDate = getNextDueDate(payment.dueDate, payment.recurringFrequency),
     !.status = "pending", !.paidDate = NoDate, !.paidAmount = NoAmount,
     !.isRecurring = TRUE]

\* the row nextPayment built from the payment that was read
nextPayment(payment, userId) ==
  [userId |-> userId, name |-> payment.name, amount |-> payment.amount,
   currency |-> payment.currency,
   dueDate |-> getNextDueDate(payment.dueDate, payment.recurringFrequency),
   status |-> "pending", paidDate |-> NoDate, paidAmount |-> NoAmount,
   categoryId |-> payment.categoryId, accountId |-> payment.accountId,
   debtId |-> payment.debtId, loanId |-> payment.loanId,
   debtInstallmentId |-> NoId, isRecurring |-> TRUE,
   recurringFrequency |-> payment.recurringFrequency,
   priority |-> payment.priority, tags |-> payment.tags,
   notes |-> payment.notes, reminderDays |-> payment.reminderDays]

\* if (payment.accountId)
PostsTransaction(payment) == payment.accountId # NoId

\* mutant: settlement posts a payment of the linked debt or loan
createdTransaction_linked(payment, userId, paidDate, paidAmount) ==
  [userId |-> userId, accountId |-> payment.accountId,
   categoryId |-> payment.categoryId,
   type |-> IF payment.loanId # NoId THEN "loan_payment" ELSE "debt_payment",
   amount |-> paidAmount, description |-> payment.name, date |-> paidDate,
   debtId |-> payment.debtId, loanId |-> payment.loanId, goalId |-> NoId]

\* mutant: the ledger row carries the payment's amount, not the amount paid
createdTransaction_listAmount(payment, userId, paidDate, paidAmount) ==
  [userId |-> userId, accountId |-> payment.accountId,
   categoryId |-> payment.categoryId, type |-> "expense",
   amount |-> payment.amount, description |-> payment.name, date |-> paidDate,
   debtId |-> NoId, loanId |-> NoId, goalId |-> NoId]

\* the ledger row inserted for a settled payment
createdTransaction(payment, userId, paidDate, paidAmount) ==
  [userId |-> userId, accountId |-> payment.accountId,
   categoryId |-> payment.categoryId, type |-> "expense",
   amount |-> paidAmount, description |-> payment.name, date |-> paidDate,
   debtId |-> NoId, loanId |-> NoId, goalId |-> NoId]

\* INSERT INTO transactions
InsertTransaction(table, id, row) ==
  [i \in DOMAIN table \cup {id} |-> IF i = id THEN row ELSE table[i]]

\* mutant: the handler does not look for an earlier settlement
AlreadyPaid_unchecked(payment) == FALSE

\* if (payment.status === "paid") return 400
AlreadyPaid(payment) == payment.status = "paid"

\* mutant: the handler settles cancelled payments too
IsCancelled_unchecked(payment) == FALSE

\* if (payment.status === "cancelled") return 400
IsCancelled(payment) == payment.status = "cancelled"

\* POST /scheduled-payments/:id/pay, run without interruption
Pay(userId, id, body) ==
  /\ Served
  /\ IF ~Owned(id, userId)
     THEN /\ last' = PayResponse(userId, id, body, 404, 0, 0, "none")
          /\ UNCHANGED <<scheduledPayments, transactions, dashboardConfig, transfers, clock,
                         uuids>>
     ELSE
       LET payment == scheduledPayments[id]
           paidDate == PaidDate(body, today)
           paidAmount == PaidAmount(body, payment)
           next == CreatesNext(payment, body)
           posts == PostsTransaction(payment)
           paid == MarkPaid(scheduledPayments, id, paidDate, paidAmount)
       IN IF AlreadyPaid(payment) \/ IsCancelled(payment)
          THEN /\ last' = PayResponse(userId, id, body, 400, 0, 0,
                                      payment.status)
               /\ UNCHANGED <<scheduledPayments, transactions, dashboardConfig, transfers,
                              clock, uuids>>
          ELSE /\ next => newPaymentId <= MaxPayments
               /\ posts => newTxId <= MaxTx
               /\ scheduledPayments' =
                    IF next
                    THEN InsertPayment(paid, newPaymentId,
                                       nextPayment(payment, userId))
                    ELSE paid
               /\ transactions' =
                    IF posts
                    THEN InsertTransaction(transactions, newTxId,
                           createdTransaction(payment, userId, paidDate,
                                              paidAmount))
                    ELSE transactions
               /\ uuids' = <<IF next THEN newPaymentId ELSE uuids[1],
                             IF posts THEN newTxId ELSE uuids[2]>>
               /\ last' = PayResponse(userId, id, body, 200,
                                      IF posts THEN newTxId ELSE 0,
                                      IF next THEN newPaymentId ELSE 0,
                                      payment.status)
               /\ UNCHANGED <<dashboardConfig, transfers, clock>>

\* UPDATE scheduled_payments SET status = 'cancelled' WHERE id = :id
MarkCancelled(table, id) ==
  [i \in DOMAIN table |->
     IF i = id THEN [table[i] EXCEPT !.status = "cancelled"] ELSE table[i]]

\* mutant: the handler cancels paid payments too
NotCancellable_unchecked(payment) == FALSE

\* if (payment.status === "paid") return 400
NotCancellable(payment) == payment.status = "paid"

\* POST /scheduled-payments/:id/cancel
Cancel(userId, id) ==
  /\ Served
  /\ IF ~Owned(id, userId)
     THEN /\ last' = Status("cancel", userId, id, 404)
          /\ UNCHANGED <<scheduledPayments, transactions, dashboardConfig, transfers, clock,
                         uuids>>
     ELSE IF NotCancellable(scheduledPayments[id])
     THEN /\ last' = Response("cancel", userId, id, 400, {}, 0, 0, "paid")
          /\ UNCHANGED <<scheduledPayments, transactions, dashboardConfig, transfers, clock,
                         uuids>>
     ELSE /\ scheduledPayments' = MarkCancelled(scheduledPayments, id)
          /\ last' = Response("cancel", userId, id, 200, {}, 0, 0,
                              scheduledPayments[id].status)
          /\ UNCHANGED <<transactions, dashboardConfig, transfers, clock, uuids>>

\* DELETE /scheduled-payments/:id
Delete(userId, id) ==
  /\ Served
  /\ IF Owned(id, userId)
     THEN /\ scheduledPayments' =
               [i \in DOMAIN scheduledPayments \ {id} |-> scheduledPayments[i]]
          /\ last' = Status("delete", userId, id, 200)
          /\ UNCHANGED <<transactions, dashboardConfig, transfers, clock, uuids>>
     ELSE /\ last' = Status("delete", userId, id, 404)
          /\ UNCHANGED <<scheduledPayments, transactions, dashboardConfig, transfers, clock,
                         uuids>>

\* ---- POST /scheduled-payments/:id/pay when handlers interleave: one
\* action per await of the handler
PayRejected(h, userId, id, code) ==
  [Idle EXCEPT !.pc = "done", !.userId = userId, !.id = id, !.code = code]

\* await db.select() ... and the status checks that follow it
PaySelect(h, userId, id, body) ==
  /\ inflight[h].pc = "idle"
  /\ inflight' = [inflight EXCEPT ![h] =
       IF ~Owned(id, userId) THEN PayRejected(h, userId, id, 404)
       ELSE IF \/ AlreadyPaid(scheduledPayments[id])
               \/ IsCancelled(scheduledPayments[id])
       THEN PayRejected(h, userId, id, 400)
       ELSE [Idle EXCEPT !.pc = "update", !.userId = userId, !.id = id,
                         !.payment = scheduledPayments[id],
                         !.paidDate = PaidDate(body, today),
                         !.paidAmount = PaidAmount(body, scheduledPayments[id]),
                         !.createsNext =
                            CreatesNext(scheduledPayments[id], body)]]
  /\ UNCHANGED <<scheduledPayments, transactions, dashboardConfig, transfers, clock,
                 uuids, last, served>>

\* the await the handler reaches after the status update
AfterUpdate(r) ==
  IF r.createsNext THEN "insertNext"
  ELSE IF PostsTransaction(r.payment) THEN "insertTransaction" ELSE "done"

\* await db.update(scheduledPayments).set({status: "paid", ...})
PayUpdate(h) ==
  LET r == inflight[h]
  IN /\ r.pc = "update"
     /\ scheduledPayments' =
          MarkPaid(scheduledPayments, r.id, r.paidDate, r.paidAmount)
     /\ inflight' = [inflight EXCEPT ![h].pc = AfterUpdate(r),
                                     ![h].code =
                                        IF AfterUpdate(r) = "done" THEN 200
                                        ELSE 0]
     /\ UNCHANGED <<transactions, dashboardConfig, transfers, clock, uuids, last, served>>

\* await db.insert(scheduledPayments).values(nextPayment)
PayInsertNext(h) ==
  LET r == inflight[h]
      posts == PostsTransaction(r.payment)
  IN /\ r.pc = "insertNext"
     /\ newPaymentId <= MaxPayments
     /\ scheduledPayments' = InsertPayment(scheduledPayments, newPaymentId,
                                           nextPayment(r.payment, r.userId))
     /\ uuids' = <<newPaymentId, uuids[2]>>
     /\ inflight' = [inflight EXCEPT
          ![h].nextPayment = newPaymentId,
          ![h].pc = IF posts THEN "insertTransaction" ELSE "done",
          ![h].code = IF posts THEN 0 ELSE 200]
     /\ UNCHANGED <<transactions, dashboardConfig, transfers, clock, last, served>>

\* await db.insert(transactions).values({...}) and the response
PayInsertTransaction(h) ==
  LET r == inflight[h]
  IN /\ r.pc = "insertTransaction"
     /\ newTxId <= MaxTx
     /\ transactions' = InsertTransaction(transactions, newTxId,
          createdTransaction(r.payment, r.userId, r.paidDate, r.paidAmount))
     /\ uuids' = <<uuids[1], newTxId>>
     /\ inflight' = [inflight EXCEPT ![h].transaction = newTxId,
                                     ![h].pc = "done", ![h].code = 200]
     /\ UNCHANGED <<scheduledPayments, dashboardConfig, transfers, clock, last, served>>

\* ------------------------------------------------------------ specification
Next ==
  \/ Tick
  \/ \E u \in Users, f \in scheduledPaymentFiltersSchema : List(u, f)
  \/ \E u \in Users, days \in UpcomingDays : Upcoming(u, days)
  \/ \E u \in Users, id \in PaymentIds : GetOne(u, id)
  \/ \E u \in Users : Dashboard(u)
  \/ \E u \in Users : Summary(u)
  \/ \E u \in Users, b \in dashboardConfigSchema : PatchDashboard(u, b)
  \/ \E u \in Users, b \in createScheduledPaymentSchema : Create(u, b)
  \/ \E u \in Users, id \in PaymentIds, b \in updateScheduledPaymentSchema :
       Patch(u, id, b)
  \/ \E u \in Users, id \in PaymentIds, b \in markPaymentAsPaidSchema :
       Pay(u, id, b)
  \/ \E u \in Users, id \in PaymentIds : Cancel(u, id)
  \/ \E u \in Users, id \in PaymentIds : Delete(u, id)

Spec == Init /\ [][Next]_vars

\* Two settle requests in flight over a store that holds one payment whose
\* status is pending or overdue
InitRace ==
  /\ \E u \in Users, b \in createScheduledPaymentSchema, st \in {"pending", "overdue"} :
       /\ RefOk(b.categoryId, categories, u)
       /\ RefOk(b.accountId, accounts, u)
       /\ RefOk(b.debtId, debts, u)
       /\ RefOk(b.loanId, loans, u)
       /\ scheduledPayments =
            InsertPayment(<< >>, 1, [newPayment(u, b) EXCEPT !.status = st])
  /\ transactions = << >>
  /\ transfers = << >>
  /\ dashboardConfig = [u \in Users |-> defaultConfig]
  /\ clock = 1
  /\ uuids = <<1, 0>>
  /\ last = Response("none", "u1", 0, 0, NoRows, 0, 0, "none")
  /\ served = 0
  /\ inflight = [h \in Handlers |-> Idle]

NextRace ==
  \/ Tick
  \/ \E h \in Handlers, u \in Users, id \in PaymentIds,
        b \in markPaymentAsPaidSchema : PaySelect(h, u, id, b)
  \/ \E h \in Handlers : PayUpdate(h)
  \/ \E h \in Handlers : PayInsertNext(h)
  \/ \E h \in Handlers : PayInsertTransaction(h)

SpecRace == InitRace /\ [][NextRace]_vars

\* ------------------------------------------------------------ recurrence dates
\* values of scheduledPayments.recurringFrequency
Frequencies == {"weekly", "biweekly", "monthly", "quarterly", "yearly"}

Years == {2024, 2025}

ValidDate(date) ==
  /\ MonthOf(date) \in 1 .. 12
  /\ DayOf(date) \in 1 .. DaysInMonth(YearOf(date), MonthOf(date))

\* the calendar dates of Years, as a due date holds them
CalendarDates ==
  {date \in {y * 10000 + m * 100 + d : y \in Years, m \in 1 .. 12, d \in 1 .. 31} :
     ValidDate(date)}

\* a due date and a frequency, before the helper is applied to them
InitDates ==
  /\ scheduledPayments = << >>
  /\ transactions = << >>
  /\ transfers = << >>
  /\ dashboardConfig = [u \in Users |-> defaultConfig]
  /\ clock = 1
  /\ uuids = <<0, 0>>
  /\ served = 0
  /\ inflight = [h \in Handlers |-> Idle]
  /\ \E date \in CalendarDates, f \in Frequencies :
       last = [op |-> "dueDate", currentDate |-> date, frequency |-> f,
               nextDueDate |-> NoDate]

\* the helper is applied to the due date
Advance ==
  /\ last.op = "dueDate"
  /\ last' = [last EXCEPT !.op = "getNextDueDate",
                          !.nextDueDate = getNextDueDate(last.currentDate,
                                                         last.frequency)]
  /\ UNCHANGED <<scheduledPayments, transactions, transfers, dashboardConfig,
                 clock, uuids, served, inflight>>

NextDates == Advance

SpecDates == InitDates /\ [][NextDates]_vars

\* ------------------------------------------------------------ debts
totalInstallments_noDefault(debt) == debt.totalInstallments

\* debt.totalInstallments || 1
totalInstallments(debt) ==
  IF debt.totalInstallments # 0 THEN debt.totalInstallments ELSE 1

\* debt.dueDate || debt.startDate
startDate(debt) == IF debt.dueDate # NoDate THEN debt.dueDate ELSE debt.startDate

\* new Date(startDate) with setMonth(getMonth() + i), formatted back
installmentDueDate(date, i) == MakeDay(YearOf(date), MonthOf(date) + i, DayOf(date))

\* the rows the loop pushes, i = 0 .. totalInstallments - 1, at index i + 1
paymentsToCreate(debtId, userId) ==
  LET debt == debtRow[debtId]
      total == totalInstallments(debt)
      monthlyPayment == Quotient(debt.principalAmount, total)
  IN [k \in 1 .. total |->
        [userId |-> userId, name |-> "cuota", amount |-> monthlyPayment,
         currency |-> debt.currency,
         dueDate |-> installmentDueDate(startDate(debt), k - 1),
         status |-> "pending", paidDate |-> NoDate, paidAmount |-> NoAmount,
         categoryId |-> NoId, accountId |-> NoId, debtId |-> debtId,
         loanId |-> NoId, debtInstallmentId |-> NoId, isRecurring |-> FALSE,
         recurringFrequency |-> NoFreq, priority |-> "high", tags |-> NoStr,
         notes |-> NoStr, reminderDays |-> 3]]

\* db.batch of the INSERTs: the rows take the ids handed out in the loop
InsertBatch(table, first, rows) ==
  [i \in DOMAIN table \cup {first + k - 1 : k \in DOMAIN rows} |->
     IF i \in DOMAIN table THEN table[i] ELSE rows[i - first + 1]]

\* POST /scheduled-payments/from-debt/:debtId.  The batch is one
\* transaction of the store: it commits every INSERT, or it fails, nothing
\* is inserted and the request ends with status 500.
FromDebt(userId, debtId) ==
  /\ Served
  /\ IF debtId \in DOMAIN debts /\ debts[debtId] = userId
     THEN LET rows == paymentsToCreate(debtId, userId)
              ids == {newPaymentId + k - 1 : k \in DOMAIN rows}
          IN /\ uuids' = <<uuids[1] + Len(rows), uuids[2]>>
             /\ \/ /\ scheduledPayments' =
                        InsertBatch(scheduledPayments, newPaymentId, rows)
                   /\ last' = [Status("from-debt", userId, 0, 201)
                                 EXCEPT !.rows = ids] @@ [debtId |-> debtId]
                \/ /\ last' = Status("from-debt", userId, 0, 500)
                                @@ [debtId |-> debtId]
                   /\ UNCHANGED scheduledPayments
             /\ UNCHANGED <<transactions, transfers, dashboardConfig, clock>>
     ELSE /\ last' = Status("from-debt", userId, 0, 404) @@ [debtId |-> debtId]
          /\ UNCHANGED <<scheduledPayments, transactions, transfers,
                         dashboardConfig, clock, uuids>>

NextFromDebt == \E u \in Users, d \in DOMAIN debts : FromDebt(u, d)

SpecFromDebt == Init /\ [][NextFromDebt]_vars

\* ------------------------------------------------------------ ledger
\* bodies accepted by createTransactionSchema
createTransactionSchema ==
  { [accountId |-> "a1", categoryId |-> NoId, type |-> "income",
     amount |-> 300, description |-> "salary", date |-> 20250131,
     debtId |-> NoId, loanId |-> NoId, goalId |-> NoId],
    [accountId |-> "a1", categoryId |-> "c1", type |-> "expense",
     amount |-> 45, description |-> "food", date |-> 20250131,
     debtId |-> NoId, loanId |-> NoId, goalId |-> NoId],
    [accountId |-> "a3", categoryId |-> NoId, type |-> "debt_payment",
     amount |-> 60, description |-> "card", date |-> 20250131,
     debtId |-> "d4", loanId |-> NoId, goalId |-> NoId],
    [accountId |-> "a1", categoryId |-> NoId, type |-> "goal_contribution",
     amount |-> 60, description |-> "trip", date |-> 20250131,
     debtId |-> NoId, loanId |-> NoId, goalId |-> "g1"],
    [accountId |-> "a1", categoryId |-> NoId, type |-> "goal_contribution",
     amount |-> 199, description |-> "bike", date |-> 20250131,
     debtId |-> NoId, loanId |-> NoId, goalId |-> "g2"],
    [accountId |-> "a2", categoryId |-> NoId, type |-> "loan_payment",
     amount |-> 10, description |-> "ana", date |-> 20250212,
     debtId |-> NoId, loanId |-> "l1", goalId |-> NoId],
    [accountId |-> "a2", categoryId |-> NoId, type |-> "income",
     amount |-> 10, description |-> "refund", date |-> 20250212,
     debtId |-> NoId, loanId |-> NoId, goalId |-> NoId] }

\* bodies accepted by createTransferSchema (fee defaults to 0, the two
\* accounts differ)
createTransferSchema ==
  { [fromAccountId |-> "a1", toAccountId |-> "a3", amount |-> 200, fee |-> 5,
     date |-> 20250131],
    [fromAccountId |-> "a3", toAccountId |-> "a1", amount |-> 30, fee |-> 0,
     date |-> 20250131],
    [fromAccountId |-> "a1", toAccountId |-> "a2", amount |-> 15, fee |-> 1,
     date |-> 20250131] }

\* the row POST /transactions inserts for a body
newTransaction(userId, body) ==
  [userId |-> userId, accountId |-> body.accountId,
   categoryId |-> body.categoryId, type |-> body.type, amount |-> body.amount,
   description |-> body.description, date |-> body.date,
   debtId |-> body.debtId, loanId |-> body.loanId, goalId |-> body.goalId]

\* POST /transactions
CreateTransaction(userId, body) ==
  /\ Served
  /\ IF /\ body.accountId \in DOMAIN accounts
        /\ accounts[body.accountId] = userId
        /\ RefOk(body.categoryId, categories, userId)
     THEN /\ newTxId <= MaxTx
          /\ transactions' = InsertTransaction(transactions, newTxId,
                                               newTransaction(userId, body))
          /\ uuids' = <<uuids[1], newTxId>>
          /\ last' = Status("transaction", userId, newTxId, 201)
          /\ UNCHANGED <<scheduledPayments, transfers, dashboardConfig, clock>>
     ELSE /\ last' = Status("transaction", userId, 0, 404)
          /\ UNCHANGED <<scheduledPayments, transactions, transfers,
                         dashboardConfig, clock, uuids>>

\* POST /transfers
CreateTransfer(userId, body) ==
  /\ Served
  /\ IF /\ body.fromAccountId \in DOMAIN accounts
        /\ accounts[body.fromAccountId] = userId
        /\ body.toAccountId \in DOMAIN accounts
        /\ accounts[body.toAccountId] = userId
     THEN /\ transfers' = Append(transfers,
               [userId |-> userId, fromAccountId |-> body.fromAccountId,
                toAccountId |-> body.toAccountId, amount |-> body.amount,
                fee |-> body.fee, date |-> body.date])
          /\ last' = Status("transfer", userId, Len(transfers) + 1, 201)
          /\ UNCHANGED <<scheduledPayments, transactions, dashboardConfig,
                         clock, uuids>>
     ELSE /\ last' = Status("transfer", userId, 0, 404)
          /\ UNCHANGED <<scheduledPayments, transactions, transfers,
                         dashboardConfig, clock, uuids>>

\* GET /accounts
AccountsList(userId, includeInactive) ==
  /\ Served
  /\ last' = Rows("accounts", userId, 0, NoRows)
               @@ accountsWithBalances(userId, includeInactive)
  /\ UNCHANGED <<scheduledPayments, transactions, transfers, dashboardConfig,
                 clock, uuids>>

\* GET /accounts/:id
AccountGet(userId, accountId) ==
  /\ Served
  /\ last' = IF accountId \in DOMAIN accounts /\ accounts[accountId] = userId
             THEN Rows("account", userId, 0, NoRows)
                    @@ [accountId |-> accountId,
                        balance |-> accountBalance(accountId, userId)]
             ELSE Status("account", userId, 0, 404) @@ [accountId |-> accountId]
  /\ UNCHANGED <<scheduledPayments, transactions, transfers, dashboardConfig,
                 clock, uuids>>

\* bodies of PATCH /settings/dashboard that choose the accounts of the
\* dashboard balance
balanceAccountIdsSchema ==
  [showScheduledPayments : {TRUE}, scheduledPaymentsDays : {7},
   balanceAccountIds : {NoIds, {"a1", "a4"}}]

NextLedger ==
  \/ \E u \in Users, b \in createTransactionSchema : CreateTransaction(u, b)
  \/ \E u \in Users, b \in createTransferSchema : CreateTransfer(u, b)
  \/ \E u \in Users, b \in balanceAccountIdsSchema : PatchDashboard(u, b)
  \/ \E u \in Users, includeInactive \in BOOLEAN : AccountsList(u, includeInactive)
  \/ \E u \in Users, a \in DOMAIN accounts : AccountGet(u, a)
  \/ \E u \in Users : Dashboard(u)
  \/ \E u \in Users : Summary(u)

SpecLedger == Init /\ [][NextLedger]_vars

\* ------------------------------------------------------------ progress views
\* GET /goals (no goal of the store is completed)
GoalsList(userId) ==
  /\ Served
  /\ last' = Rows("goals", userId, 0, NoRows)
               @@ [goals |-> [g \in {g \in DOMAIN goals : goals[g] = userId} |->
                                goalWithProgress(g, userId, today)]]
  /\ UNCHANGED <<scheduledPayments, transactions, transfers, dashboardConfig,
                 clock, uuids>>

\* GET /goals/:id
GoalGet(userId, goalId) ==
  /\ Served
  /\ last' = IF goalId \in DOMAIN goals /\ goals[goalId] = userId
             THEN Rows("goal", userId, 0, NoRows)
                    @@ [goal |-> goalDetail(goalId, userId)]
             ELSE Status("goal", userId, 0, 404)
  /\ UNCHANGED <<scheduledPayments, transactions, transfers, dashboardConfig,
                 clock, uuids>>

\* GET /debts
DebtsList(userId) ==
  /\ Served
  /\ last' = Rows("debts", userId, 0, NoRows)
               @@ [debts |-> [d \in {d \in DOMAIN debts : debts[d] = userId} |->
                                debtWithPaidAmount(d, userId)]]
  /\ UNCHANGED <<scheduledPayments, transactions, transfers, dashboardConfig,
                 clock, uuids>>

\* GET /debts/:id
DebtGet(userId, debtId) ==
  /\ Served
  /\ last' = IF debtId \in DOMAIN debts /\ debts[debtId] = userId
             THEN Rows("debt", userId, 0, NoRows)
                    @@ [debt |-> debtWithPaidAmount(debtId, userId)]
             ELSE Status("debt", userId, 0, 404)
  /\ UNCHANGED <<scheduledPayments, transactions, transfers, dashboardConfig,
                 clock, uuids>>

\* GET /loans
LoansList(userId) ==
  /\ Served
  /\ last' = Rows("loans", userId, 0, NoRows)
               @@ [loans |-> [l \in {l \in DOMAIN loans : loans[l] = userId} |->
                                loanWithReceivedAmount(l, userId)]]
  /\ UNCHANGED <<scheduledPayments, transactions, transfers, dashboardConfig,
                 clock, uuids>>

\* GET /loans/:id
LoanGet(userId, loanId) ==
  /\ Served
  /\ last' = IF loanId \in DOMAIN loans /\ loans[loanId] = userId
             THEN Rows("loan", userId, 0, NoRows)
                    @@ [loan |-> loanWithReceivedAmount(loanId, userId)]
             ELSE Status("loan", userId, 0, 404)
  /\ UNCHANGED <<scheduledPayments, transactions, transfers, dashboardConfig,
                 clock, uuids>>

NextProgress ==
  \/ Tick
  \/ \E u \in Users, b \in createTransactionSchema : CreateTransaction(u, b)
  \/ \E u \in Users : GoalsList(u)
  \/ \E u \in Users, g \in DOMAIN goals : GoalGet(u, g)
  \/ \E u \in Users : DebtsList(u)
  \/ \E u \in Users, d \in DOMAIN debts : DebtGet(u, d)
  \/ \E u \in Users : LoansList(u)
  \/ \E u \in Users, l \in DOMAIN loans : LoanGet(u, l)
  \/ \E u \in Users : Dashboard(u)

SpecProgress == Init /\ [][NextProgress]_vars

\* ------------------------------------------------------------ trends periods
\* the periods GET /dashboard/trends and GET /dashboard/summary accept
Periods == {"today", "week", "month", "quarter", "year"}

\* getDateRange(period) on the day `now`; the worker's clock is UTC, so the
\* time of day of `now` does not reach the formatted dates
getDateRange(period, now) ==
  LET y == YearOf(now)
      m == MonthOf(now)
      d == DayOf(now)
  IN [start |-> CASE period = "today" -> MakeDay(y, m, d)
                  [] period = "week" -> MakeDay(y, m, d - 7)
                  [] period = "month" -> MakeDay(y, m, 1)
                  [] period = "quarter" -> MakeDay(y, m - 3, d)
                  [] period = "year" -> MakeDay(y, 1, 1)
                  [] OTHER -> MakeDay(y, m, 1),
      end |-> now]

\* new Date("YYYY-MM-DD").getTime(), counted in whole days: the date is
\* parsed as midnight UTC
getTime(date) ==
  LET y == IF MonthOf(date) < 3 THEN YearOf(date) - 1 ELSE YearOf(date)
      m == IF MonthOf(date) < 3 THEN MonthOf(date) + 9 ELSE MonthOf(date) - 3
  IN 365 * y + (y \div 4) - (y \div 100) + (y \div 400)
       + ((153 * m + 2) \div 5) + DayOf(date) - 1

\* a time value: a day and an offset in milliseconds from its midnight,
\* the offset shorter than a day
Instant(date, ms) == [date |-> date, ms |-> ms]

\* toISOString().split("T")[0]
toISODate(instant) ==
  IF instant.ms < 0 THEN AddDays(instant.date, -1) ELSE instant.date

\* GET /dashboard/trends: the period before the current one
previousRange(currentRange) ==
  LET periodLength == getTime(currentRange.end) - getTime(currentRange.start)
      previousStart == Instant(AddDays(currentRange.start, -periodLength), 0)
      previousEnd == Instant(currentRange.start, -1)
  IN [start |-> toISODate(previousStart), end |-> toISODate(previousEnd)]

\* a period and a day, before the ranges are computed for them
InitTrends ==
  /\ scheduledPayments = << >>
  /\ transactions = << >>
  /\ transfers = << >>
  /\ dashboardConfig = [u \in Users |-> defaultConfig]
  /\ clock = 1
  /\ uuids = <<0, 0>>
  /\ served = 0
  /\ inflight = [h \in Handlers |-> Idle]
  /\ \E now \in CalendarDates, period \in Periods :
       last = [op |-> "period", period |-> period, now |-> now,
               currentRange |-> [start |-> NoDate, end |-> NoDate],
               previousRange |-> [start |-> NoDate, end |-> NoDate]]

\* GET /dashboard/trends?period=: the two ranges the sums are taken over
Trends ==
  /\ last.op = "period"
  /\ last' = [last EXCEPT !.op = "trends",
                          !.currentRange = getDateRange(last.period, last.now),
                          !.previousRange =
                             previousRange(getDateRange(last.period, last.now))]
  /\ UNCHANGED <<scheduledPayments, transactions, transfers, dashboardConfig,
                 clock, uuids, served, inflight>>

NextTrends == Trends

SpecTrends == InitTrends /\ [][NextTrends]_vars

\* ------------------------------------------------------------ settings
\* the keys of the dashboard configuration the model follows
ConfigKeys == {"showScheduledPayments", "scheduledPaymentsDays",
               "balanceAccountIds"}

\* the configurations dashboardConfigSchema accepts
Configs ==
  [showScheduledPayments : BOOLEAN, scheduledPaymentsDays : {7, 14},
   balanceAccountIds : {NoIds, {"a1"}}]

\* the JSON bodies of PATCH /settings/dashboard: every key is optional, a
\* body is the function from the keys it supplies to their values
dashboardConfigBodies ==
  {[k \in keys |-> config[k]] : config \in Configs, keys \in SUBSET ConfigKeys}

\* dashboardConfigSchema.safeParse(body).data: a key the body does not
\* supply takes the default of the schema
parseDashboardConfig(body) ==
  [k \in ConfigKeys |-> IF k \in DOMAIN body THEN body[k] ELSE defaultConfig[k]]

\* table user_settings has no row yet (user_id is unique: a user has one
\* row or none, so the dashboardConfig column is a function of the user)
InitSettings ==
  /\ scheduledPayments = << >>
  /\ transactions = << >>
  /\ transfers = << >>
  /\ dashboardConfig = << >>
  /\ clock = 1
  /\ uuids = <<0, 0>>
  /\ served = 0
  /\ inflight = [h \in Handlers |-> Idle]
  /\ last = Status("none", "u1", 0, 0) @@ [supplied |-> {}, data |-> defaultConfig]

\* INSERT INTO user_settings / UPDATE user_settings SET dashboard_config
StoreConfig(table, userId, config) ==
  [u \in DOMAIN table \cup {userId} |-> IF u = userId THEN config ELSE table[u]]

\* GET /settings: the row is created with the defaults when it is missing
GetSettings(userId) ==
  /\ Served
  /\ dashboardConfig' =
       IF userId \in DOMAIN dashboardConfig THEN dashboardConfig
       ELSE StoreConfig(dashboardConfig, userId, defaultConfig)
  /\ last' = Status("settings", userId, 0, 200)
               @@ [supplied |-> {}, data |-> dashboardConfig'[userId]]
  /\ UNCHANGED <<scheduledPayments, transactions, transfers, clock, uuids>>

\* PATCH /settings/dashboard with a JSON body
PatchDashboardConfig(userId, body) ==
  /\ Served
  /\ dashboardConfig' =
       StoreConfig(dashboardConfig, userId, parseDashboardConfig(body))
  /\ last' = Status("patchDashboard", userId, 0, 200)
               @@ [supplied |-> DOMAIN body, data |-> parseDashboardConfig(body)]
  /\ UNCHANGED <<scheduledPayments, transactions, transfers, clock, uuids>>

\* POST /settings/reset
ResetSettings(userId) ==
  /\ Served
  /\ dashboardConfig' = StoreConfig(dashboardConfig, userId, defaultConfig)
  /\ last' = Status("reset", userId, 0, 200)
               @@ [supplied |-> {}, data |-> defaultConfig]
  /\ UNCHANGED <<scheduledPayments, transactions, transfers, clock, uuids>>

NextSettings ==
  \/ \E u \in Users : GetSettings(u)
  \/ \E u \in Users, b \in dashboardConfigBodies : PatchDashboardConfig(u, b)
  \/ \E u \in Users : ResetSettings(u)

SpecSettings == InitSettings /\ [][NextSettings]_vars

\* ------------------------------------------------------------ interleaving
\* ---- sweep, settle and cancel when handlers interleave: one action per
\* await of a handler
\* await db.select() of POST /:id/cancel and the status check that follows it
CancelSelect(h, userId, id) ==
  /\ inflight[h].pc = "idle"
  /\ inflight' = [inflight EXCEPT ![h] =
       IF ~Owned(id, userId)
       THEN [Idle EXCEPT !.pc = "cancelDone", !.userId = userId, !.id = id,
                         !.code = 404]
       ELSE IF NotCancellable(scheduledPayments[id])
       THEN [Idle EXCEPT !.pc = "cancelDone", !.userId = userId, !.id = id,
                         !.code = 400]
       ELSE [Idle EXCEPT !.pc = "cancelUpdate", !.userId = userId, !.id = id,
                         !.payment = scheduledPayments[id]]]
  /\ UNCHANGED <<scheduledPayments, transactions, dashboardConfig, transfers,
                 clock, uuids, last, served>>

\* await db.update(scheduledPayments).set({status: "cancelled"}) and the
\* response
CancelUpdate(h) ==
  LET r == inflight[h]
  IN /\ r.pc = "cancelUpdate"
     /\ scheduledPayments' = MarkCancelled(scheduledPayments, r.id)
     /\ inflight' = [inflight EXCEPT ![h].pc = "cancelDone", ![h].code = 200]
     /\ UNCHANGED <<transactions, dashboardConfig, transfers, clock, uuids,
                    last, served>>

\* await markOverduePayments(db, userId) of a read handler: one UPDATE
Sweep(userId) ==
  /\ scheduledPayments' = markOverduePayments(scheduledPayments, userId, today)
  /\ last' = Rows("sweep", userId, 0,
                  {id \in DOMAIN scheduledPayments :
                     scheduledPayments'[id] # scheduledPayments[id]})
  /\ UNCHANGED <<transactions, dashboardConfig, transfers, clock, uuids,
                 served, inflight>>

NextConcurrent ==
  \/ Tick
  \/ \E u \in Users : Sweep(u)
  \/ \E h \in Handlers, u \in Users, id \in PaymentIds,
        b \in markPaymentAsPaidSchema : PaySelect(h, u, id, b)
  \/ \E h \in Handlers : PayUpdate(h)
  \/ \E h \in Handlers : PayInsertNext(h)
  \/ \E h \in Handlers : PayInsertTransaction(h)
  \/ \E h \in Handlers, u \in Users, id \in PaymentIds : CancelSelect(h, u, id)
  \/ \E h \in Handlers : CancelUpdate(h)

SpecConcurrent == InitRace /\ [][NextConcurrent]_vars

\* ------------------------------------------------------------ deletions
\* DELETE /transactions/:id
DeleteTransaction(userId, id) ==
  /\ Served
  /\ IF id \in DOMAIN transactions /\ transactions[id].userId = userId
     THEN /\ transactions' =
               [i \in DOMAIN transactions \ {id} |-> transactions[i]]
          /\ last' = Status("deleteTransaction", userId, id, 200)
          /\ UNCHANGED <<scheduledPayments, transfers, dashboardConfig, clock,
                         uuids>>
     ELSE /\ last' = Status("deleteTransaction", userId, id, 404)
          /\ UNCHANGED <<scheduledPayments, transactions, transfers,
                         dashboardConfig, clock, uuids>>

\* mutant: the delete leaves the row in the table
RemoveTransfer_none(table, id) == table

\* DELETE FROM transfers WHERE id = :id: a transfer is identified by its
\* position in the table; no other row stores the id of a transfer
RemoveTransfer(table, id) ==
  [i \in 1 .. (Len(table) - 1) |-> IF i < id THEN table[i] ELSE table[i + 1]]

\* DELETE /transfers/:id
DeleteTransfer(userId, id) ==
  /\ Served
  /\ IF id \in DOMAIN transfers /\ transfers[id].userId = userId
     THEN /\ transfers' = RemoveTransfer(transfers, id)
          /\ last' = Status("deleteTransfer", userId, id, 200)
          /\ UNCHANGED <<scheduledPayments, transactions, dashboardConfig,
                         clock, uuids>>
     ELSE /\ last' = Status("deleteTransfer", userId, id, 404)
          /\ UNCHANGED <<scheduledPayments, transactions, transfers,
                         dashboardConfig, clock, uuids>>

\* the ids a DELETE /transfers/:id may name
TransferIds == 1 .. MaxTx

NextDelete ==
  \/ \E u \in Users, b \in createTransactionSchema : CreateTransaction(u, b)
  \/ \E u \in Users, b \in createTransferSchema : CreateTransfer(u, b)
  \/ \E u \in Users, id \in 1 .. MaxTx : DeleteTransaction(u, id)
  \/ \E u \in Users, id \in TransferIds : DeleteTransfer(u, id)

SpecDelete == Init /\ [][NextDelete]_vars

\* ------------------------------------------------------------ tenants
\* bodies accepted by createTransactionSchema whose debtId, loanId or goalId
\* names a row of another user than the owner of the account
foreignLinkBodies ==
  { [accountId |-> "a2", categoryId |-> NoId, type |-> "goal_contribution",
     amount |-> 25, description |-> "trip", date |-> 20250131,
     debtId |-> NoId, loanId |-> NoId, goalId |-> "g1"],
    [accountId |-> "a2", categoryId |-> NoId, type |-> "debt_payment",
     amount |-> 35, description |-> "card", date |-> 20250131,
     debtId |-> "d4", loanId |-> NoId, goalId |-> NoId],
    [accountId |-> "a1", categoryId |-> NoId, type |-> "loan_payment",
     amount |-> 5, description |-> "ana", date |-> 20250131,
     debtId |-> NoId, loanId |-> "l1", goalId |-> NoId] }

\* the request bodies the two users send: of each schema, the bodies that
\* carry links, and one body without any
tenantPayments ==
  {b \in createScheduledPaymentSchema : b.name \in {"rent", "quota"}}

tenantPatches ==
  {b \in updateScheduledPaymentSchema :
     \/ DOMAIN b = {"dueDate", "accountId"}
     \/ DOMAIN b = {"status"} /\ b.status = "overdue"}

tenantEntries ==
  foreignLinkBodies \cup {b \in createTransactionSchema : b.type = "income"}

tenantTransfers == {b \in createTransferSchema : b.fee > 0}

\* every write of the two users, and the read that runs the sweep
NextTenants ==
  \/ Tick
  \/ \E u \in Users, days \in UpcomingDays : Upcoming(u, days)
  \/ \E u \in Users, b \in tenantPayments : Create(u, b)
  \/ \E u \in Users, id \in PaymentIds, b \in tenantPatches : Patch(u, id, b)
  \/ \E u \in Users, id \in PaymentIds : Pay(u, id, NoBody)
  \/ \E u \in Users, id \in PaymentIds : Cancel(u, id)
  \/ \E u \in Users, id \in PaymentIds : Delete(u, id)
  \/ \E u \in Users, b \in tenantEntries : CreateTransaction(u, b)
  \/ \E u \in Users, b \in tenantTransfers : CreateTransfer(u, b)
  \/ \E u \in Users, id \in 1 .. MaxTx : DeleteTransaction(u, id)
  \/ \E u \in Users, id \in TransferIds : DeleteTransfer(u, id)

SpecTenants == Init /\ [][NextTenants]_vars

\* ============================================================ properties
\* a request was served in this step
Request == served' = served + 1

\* the step is the owner's settle request `last'` on an existing payment
SettleStep ==
  /\ Request
  /\ last'.op = "pay"
  /\ last'.id \in DOMAIN scheduledPayments
  /\ scheduledPayments[last'.id].userId = last'.userId

\* the step is the owner's cancel request `last'` on an existing payment
CancelStep ==
  /\ Request
  /\ last'.op = "cancel"
  /\ last'.id \in DOMAIN scheduledPayments
  /\ scheduledPayments[last'.id].userId = last'.userId

\* the step is a read that runs the overdue sweep
SweepStep ==
  /\ Request
  /\ \/ last'.op \in {"list", "upcoming"}
     \/ /\ last'.op = "dashboard"
        /\ dashboardConfig[last'.userId].showScheduledPayments

\* the rows a step adds to a table
Added(old, new) == DOMAIN new \ DOMAIN old

\* the rows of the old table are in the new table, unchanged
Kept(old, new) == \A i \in DOMAIN old : i \in DOMAIN new /\ new[i] = old[i]

AllowedTransitions ==
  { <<"pending", "overdue">>, <<"pending", "paid">>, <<"pending", "cancelled">>,
    <<"overdue", "paid">>, <<"overdue", "cancelled">> }

\* C1: whatever the owner does (create, sweep, settle, cancel, PATCH,
\* delete), the status of a payment changes only along pending->overdue,
\* pending->paid, pending->cancelled, overdue->paid, overdue->cancelled; so
\* a paid or cancelled payment keeps its status.
C1_OnlyLifecycleTransitions ==
  [][\A id \in DOMAIN scheduledPayments \cap DOMAIN scheduledPayments' :
       scheduledPayments'[id].status # scheduledPayments[id].status
         => <<scheduledPayments[id].status, scheduledPayments'[id].status>>
              \in AllowedTransitions]_vars

\* C2: of two settle requests served one after the other on the same pending
\* payment, the first succeeds, the second is rejected (400) and changes
\* nothing, and the two responses together name exactly one ledger row when
\* the payment has an account (none otherwise) and at most one next payment.
C2_SettledExactlyOnce ==
  [][(/\ last.op = "pay" /\ last.code = 200 /\ last.was = "pending"
      /\ Request
      /\ last'.op = "pay" /\ last'.id = last.id /\ last'.userId = last.userId)
     => /\ last'.code = 400
        /\ scheduledPayments' = scheduledPayments
        /\ transactions' = transactions
        /\ last.id \in DOMAIN scheduledPayments
        /\ Cardinality({last.transaction, last'.transaction} \ {0})
             = IF scheduledPayments[last.id].accountId # NoId THEN 1 ELSE 0
        /\ ({last.transaction, last'.transaction} \ {0})
             \subseteq DOMAIN transactions'
        /\ Cardinality({last.nextPayment, last'.nextPayment} \ {0}) <= 1]_vars

\* C2 witness: three requests were served, the last one a settle rejected
\* because the payment is paid, and the ledger row of the first settle
\* exists (the only three requests that lead here are create, settle,
\* settle).
C2_Witness ==
  /\ served = 3
  /\ last.op = "pay" /\ last.code = 400 /\ last.was = "paid"
  /\ scheduledPayments[last.id].status = "paid"
  /\ scheduledPayments[last.id].paidDate # NoDate
  /\ Cardinality(DOMAIN transactions) = 1

\* the handlers that settle payment id
Settling(id) == {h \in Handlers : inflight[h].pc # "idle" /\ inflight[h].id = id}

\* C3: when two settle requests for the same pending or overdue payment
\* interleave at the store round trips, at most one of them succeeds and the
\* payment gets at most one ledger row and at most one next payment.
C3_ConcurrentSettleOnce ==
  \A id \in PaymentIds :
    /\ Cardinality({h \in Settling(id) : inflight[h].code = 200}) <= 1
    /\ Cardinality({h \in Settling(id) : inflight[h].transaction # 0}) <= 1
    /\ Cardinality({h \in Settling(id) : inflight[h].nextPayment # 0}) <= 1

\* C4: a settle request on a paid or cancelled payment is rejected (400) and
\* changes no row of scheduled_payments and no row of transactions.
C4_SettleRejectedChangesNothing ==
  [][(SettleStep /\ scheduledPayments[last'.id].status \in {"paid", "cancelled"})
     => /\ last'.code = 400
        /\ last'.transaction = 0 /\ last'.nextPayment = 0
        /\ scheduledPayments' = scheduledPayments
        /\ transactions' = transactions]_vars

\* C4 witness: a settle of a cancelled payment was rejected.
C4_Witness ==
  /\ last.op = "pay" /\ last.code = 400 /\ last.was = "cancelled"
  /\ scheduledPayments[last.id].status = "cancelled"

\* C5: a successful settle of a pending or overdue payment makes it paid with
\* paidDate = the supplied date or else today and paidAmount = the supplied
\* amount or else the payment's amount; it posts a ledger row if and only if
\* the payment has an account, and then exactly one: an expense of the same
\* owner on that account, of amount paidAmount, dated paidDate.
C5_SettleEffect ==
  [][(SettleStep /\ last'.code = 200)
     => LET id == last'.id
            old == scheduledPayments[id]
            new == scheduledPayments'[id]
            posted == Added(transactions, transactions')
        IN /\ old.status \in {"pending", "overdue"}
           /\ new.status = "paid"
           /\ new.paidDate = IF last'.body.paidDate # NoDate
                             THEN last'.body.paidDate ELSE today
           /\ new.paidAmount = IF last'.body.paidAmount # NoAmount
                               THEN last'.body.paidAmount ELSE old.amount
           /\ Kept(transactions, transactions')
           /\ (old.accountId # NoId) <=> (posted # {})
           /\ Cardinality(posted) <= 1
           /\ \A t \in posted :
                /\ t = last'.transaction
                /\ transactions'[t].type = "expense"
                /\ transactions'[t].userId = old.userId
                /\ transactions'[t].accountId = old.accountId
                /\ transactions'[t].amount = new.paidAmount
                /\ transactions'[t].date = new.paidDate]_vars

\* C5 witness: a settle with a supplied date and amount succeeded on a
\* payment with an account and posted its ledger row.
C5_Witness ==
  /\ last.op = "pay" /\ last.code = 200
  /\ last.body.paidAmount # NoAmount
  /\ last.transaction \in DOMAIN transactions
  /\ transactions[last.transaction].amount = last.body.paidAmount
  /\ transactions[last.transaction].amount
       # scheduledPayments[last.id].amount

\* C6: cancel makes a pending or overdue payment cancelled, posts no ledger
\* row and creates no payment; cancel of a paid payment is rejected (400) and
\* leaves the payment unchanged.
C6_CancelEffect ==
  [][CancelStep
     => LET id == last'.id
            old == scheduledPayments[id]
        IN /\ transactions' = transactions
           /\ DOMAIN scheduledPayments' = DOMAIN scheduledPayments
           /\ \A i \in DOMAIN scheduledPayments \ {id} :
                scheduledPayments'[i] = scheduledPayments[i]
           /\ old.status \in {"pending", "overdue"}
                => /\ last'.code = 200
                   /\ scheduledPayments'[id] =
                        [old EXCEPT !.status = "cancelled"]
           /\ old.status = "paid"
                => /\ last'.code = 400
                   /\ scheduledPayments'[id] = old]_vars

\* C6 witness: a cancel of a paid payment was rejected and the payment still
\* carries its settlement.
C6_Witness ==
  /\ last.op = "cancel" /\ last.code = 400
  /\ scheduledPayments[last.id].status = "paid"
  /\ scheduledPayments[last.id].paidAmount # NoAmount

\* C7: a sweep for owner u on day today makes overdue exactly u's pending
\* payments with dueDate <= today and changes nothing else: no other row of
\* u, no row of another owner, no row created or deleted, no ledger row.
C7_SweepFrame ==
  [][SweepStep
     => /\ transactions' = transactions
        /\ DOMAIN scheduledPayments' = DOMAIN scheduledPayments
        /\ \A id \in DOMAIN scheduledPayments :
             LET old == scheduledPayments[id]
             IN scheduledPayments'[id] =
                  IF /\ old.userId = last'.userId
                     /\ old.status = "pending"
                     /\ old.dueDate <= today
                  THEN [old EXCEPT !.status = "overdue"]
                  ELSE old]_vars

\* C7 witness: a sweep made a payment of its owner overdue and left pending
\* a due payment of another owner.
C7_Witness ==
  /\ last.op \in {"list", "upcoming", "dashboard"}
  /\ last.today = today
  /\ \E id \in DOMAIN scheduledPayments :
       /\ scheduledPayments[id].userId = last.userId
       /\ scheduledPayments[id].status = "overdue"
  /\ \E id \in DOMAIN scheduledPayments :
       /\ scheduledPayments[id].userId # last.userId
       /\ scheduledPayments[id].status = "pending"
       /\ scheduledPayments[id].dueDate <= today

\* C8: the sweep is idempotent: on every table of scheduled payments, for
\* every owner and every day, sweeping twice gives the table that sweeping
\* once gives.
C8_SweepIdempotent ==
  \A u \in Users, k \in 1 .. Len(Days) :
    markOverduePayments(markOverduePayments(scheduledPayments, u, Days[k]),
                        u, Days[k])
      = markOverduePayments(scheduledPayments, u, Days[k])

\* C8 witness: a table on which the sweep of an owner changes a row, next to
\* a row that an earlier sweep made overdue.
C8_Witness ==
  \E u \in Users :
    /\ markOverduePayments(scheduledPayments, u, today) # scheduledPayments
    /\ \E id \in DOMAIN scheduledPayments :
         /\ scheduledPayments[id].userId = u
         /\ scheduledPayments[id].status = "overdue"

\* C9: every read that surfaces scheduled payments (list, upcoming, single
\* payment, dashboard) sweeps first, so no row it returns is pending with
\* dueDate <= the day of the read.
C9_ReadsNeverShowStalePending ==
  last.op \in {"list", "upcoming", "get", "dashboard"}
    => \A r \in last.rows : ~(r.status = "pending" /\ r.dueDate <= last.today)

\* C10: a successful settle creates exactly one payment when the settled one
\* is recurring, has a frequency and the request does not suppress it, and
\* none otherwise; the new payment is pending, without paidDate, paidAmount
\* and installment link, due at getNextDueDate(dueDate, frequency), and has
\* the owner, name, amount, currency, category, account, debt, loan,
\* priority, tags, notes, reminderDays and frequency of the settled one.
C10_NextPayment ==
  [][(SettleStep /\ last'.code = 200)
     => LET old == scheduledPayments[last'.id]
            created == Added(scheduledPayments, scheduledPayments')
            expected == /\ old.isRecurring
                        /\ old.recurringFrequency # NoFreq
                        /\ last'.body.createNextRecurrence
        IN /\ DOMAIN scheduledPayments \subseteq DOMAIN scheduledPayments'
           /\ Cardinality(created) = IF expected THEN 1 ELSE 0
           /\ \A n \in created :
                LET new == scheduledPayments'[n]
                IN /\ n = last'.nextPayment
                   /\ new.status = "pending"
                   /\ new.paidDate = NoDate /\ new.paidAmount = NoAmount
                   /\ new.debtInstallmentId = NoId
                   /\ new.dueDate =
                        getNextDueDate(old.dueDate, old.recurringFrequency)
                   /\ new.userId = old.userId
                   /\ new.name = old.name /\ new.amount = old.amount
                   /\ new.currency = old.currency
                   /\ new.categoryId = old.categoryId
                   /\ new.accountId = old.accountId
                   /\ new.debtId = old.debtId /\ new.loanId = old.loanId
                   /\ new.priority = old.priority /\ new.tags = old.tags
                   /\ new.notes = old.notes
                   /\ new.reminderDays = old.reminderDays
                   /\ new.recurringFrequency = old.recurringFrequency]_vars

\* C10 witness: a settle paid another amount than the payment's and created
\* the next payment of a payment that had an installment link.
C10_Witness ==
  /\ last.op = "pay" /\ last.code = 200
  /\ last.nextPayment \in DOMAIN scheduledPayments
  /\ last.id \in DOMAIN scheduledPayments
  /\ scheduledPayments[last.id].debtInstallmentId # NoId
  /\ scheduledPayments[last.id].paidAmount # scheduledPayments[last.id].amount
  /\ scheduledPayments[last.nextPayment].amount = scheduledPayments[last.id].amount

\* ------------------------------------------------------------ C11
\* days from 0000-03-01 to the date (proleptic Gregorian calendar)
DayNumber(date) ==
  LET y == IF MonthOf(date) < 3 THEN YearOf(date) - 1 ELSE YearOf(date)
      m == IF MonthOf(date) < 3 THEN MonthOf(date) + 9 ELSE MonthOf(date) - 3
  IN 365 * y + (y \div 4) - (y \div 100) + (y \div 400)
       + ((153 * m + 2) \div 5) + DayOf(date) - 1

\* months from year 0 to the month of the date
MonthNumber(date) == YearOf(date) * 12 + MonthOf(date) - 1

\* C11: for every valid calendar date d, advancing by weekly is d + 7 days
\* and by biweekly d + 14 days, and advancing by monthly, quarterly and
\* yearly gives a valid date in the calendar month exactly 1, 3 and 12
\* months after the month of d, days 29-31 included (2025-01-31 monthly is
\* a date of February 2025; 2024-02-15 yearly is 2025-02-15).
C11_AdvanceStaysOnSchedule ==
  last.op = "getNextDueDate" =>
    LET d == last.currentDate
        n == last.nextDueDate
    IN /\ ValidDate(n)
       /\ last.frequency = "weekly" => DayNumber(n) = DayNumber(d) + 7
       /\ last.frequency = "biweekly" => DayNumber(n) = DayNumber(d) + 14
       /\ last.frequency = "monthly" => MonthNumber(n) = MonthNumber(d) + 1
       /\ last.frequency = "quarterly" => MonthNumber(n) = MonthNumber(d) + 3
       /\ last.frequency = "yearly" => MonthNumber(n) = MonthNumber(d) + 12
       /\ (d = 20240215 /\ last.frequency = "yearly") => n = 20250215

\* ------------------------------------------------------------ C12, C13
\* the step is bulk generation `last'` from a debt of the requester
FromDebtStep ==
  /\ Request
  /\ last'.op = "from-debt"
  /\ last'.debtId \in DOMAIN debts
  /\ debts[last'.debtId] = last'.userId

RECURSIVE SumNum(_, _)
SumNum(table, ids) ==
  IF ids = {} THEN 0
  ELSE LET id == CHOOSE i \in ids : TRUE
       IN table[id].amount.num + SumNum(table, ids \ {id})

\* C12: bulk generation from a debt of the requester creates exactly
\* totalInstallments scheduled payments (1 when totalInstallments is
\* unset), each of amount principalAmount / totalInstallments, so the
\* amounts sum to principalAmount, each pending, of priority high, linked to
\* the debt, with no installment link and no account; the batch is atomic:
\* all of them exist afterwards or none, and no other row changes.
C12_FromDebtBatch ==
  [][FromDebtStep =>
       LET debt == debtRow[last'.debtId]
           n == IF debt.totalInstallments = 0 THEN 1 ELSE debt.totalInstallments
           added == Added(scheduledPayments, scheduledPayments')
       IN /\ Kept(scheduledPayments, scheduledPayments')
          /\ UNCHANGED <<transactions, transfers>>
          /\ added = {} \/ Cardinality(added) = n
          /\ last'.code = 201 <=> added # {}
          /\ \A id \in added :
               LET p == scheduledPayments'[id]
               IN /\ p.amount.den = n
                  /\ p.amount.num = debt.principalAmount
                  /\ p.status = "pending"
                  /\ p.priority = "high"
                  /\ p.debtId = last'.debtId
                  /\ p.userId = last'.userId
                  /\ p.debtInstallmentId = NoId
                  /\ p.accountId = NoId
          /\ added # {} =>
               SumNum(scheduledPayments', added) = debt.principalAmount * n
     ]_vars

\* payments were generated from a debt without totalInstallments, and from
\* a debt whose principal is not a multiple of its installments
C12_Witness ==
  /\ last.op = "from-debt"
  /\ last.code = 201
  /\ \E id \in DOMAIN scheduledPayments : scheduledPayments[id].debtId = "d3"
  /\ Cardinality({id \in DOMAIN scheduledPayments :
                    scheduledPayments[id].debtId = "d2"}) = 3

\* C13: the scheduled payments generated from a debt are monthly-spaced:
\* the payment generated at position k (from 0) is due exactly k calendar
\* months after the base date (the due date of the debt, or its start date
\* if it has none), on the same day of the month; the 12 payments of a debt
\* of 1200 in 12 installments starting 2025-01-01 are of 100 each, due on
\* the 1st of successive months.
C13_MonthlySpaced ==
  [][FromDebtStep /\ last'.code = 201 =>
       LET debt == debtRow[last'.debtId]
           base == IF debt.dueDate # NoDate THEN debt.dueDate ELSE debt.startDate
       IN \A id \in last'.rows :
            LET p == scheduledPayments'[id]
                k == id - newPaymentId
            IN /\ ValidDate(p.dueDate)
               /\ MonthNumber(p.dueDate) = MonthNumber(base) + k
               /\ DayOf(p.dueDate) = DayOf(base)
               /\ last'.debtId = "d1" =>
                    /\ p.amount.num = 100 * p.amount.den
                    /\ DayOf(p.dueDate) = 1
                    /\ Cardinality(last'.rows) = 12
     ]_vars

\* ------------------------------------------------------------ C14 - C16
\* the ledger entries of a type posted on an account
Entries(accountId, types) ==
  {id \in DOMAIN transactions :
     transactions[id].accountId = accountId /\ transactions[id].type \in types}

TransfersInto(accountId) ==
  {i \in DOMAIN transfers : transfers[i].toAccountId = accountId}

TransfersOutOf(accountId) ==
  {i \in DOMAIN transfers : transfers[i].fromAccountId = accountId}

\* b + sum(debit-free income) - sum(entries of the debit types)
\*   + sum(transfers in) - sum(transfer out amount + fee)
BalanceIdentity(accountId, debitTypes) ==
  accountRow[accountId].initialBalance
    + SumAmount(transactions, Entries(accountId, {"income"}))
    - SumAmount(transactions, Entries(accountId, debitTypes))
    + SumAmount(transfers, TransfersInto(accountId))
    - (SumAmount(transfers, TransfersOutOf(accountId))
         + SumFee(transfers, TransfersOutOf(accountId)))

\* C14: whatever income entries, expense entries and transfers (with fees)
\* the owner created, in whatever order, the balance the accounts list
\* reports for an account is b + sum(income) - sum(expense)
\* + sum(transfers in) - sum(transfer out amount + fee); a transfer of 200
\* with fee 5 from A to B lowers A by 205 and raises B by 200.
C14_AccountsListIdentity ==
  /\ \A u \in Users, includeInactive \in BOOLEAN :
       LET report == accountsWithBalances(u, includeInactive).accounts
       IN /\ accountsWithBalances(u, TRUE).accounts
               \in [{a \in DOMAIN accounts : accounts[a] = u} -> Int]
          /\ \A a \in DOMAIN report :
               report[a] = BalanceIdentity(a, {"expense"})
  /\ last.op = "accounts" =>
       \A a \in DOMAIN last.accounts :
         last.accounts[a] = BalanceIdentity(a, {"expense"})

\* the accounts list is read after an expense on A and a transfer of 200
\* with fee 5 from A to B
C14_Witness ==
  /\ last.op = "accounts"
  /\ Len(transfers) = 1
  /\ transfers[1].amount = 200 /\ transfers[1].fee = 5
  /\ Entries("a1", {"expense"}) # {}
  /\ last.accounts["a1"] = 1000 - 45 - 205
  /\ last.accounts["a3"] = 500 + 200

\* C15: the balance of an account on the dashboard is initialBalance
\* + sum(income) - sum(entries of type expense, debt_payment,
\* goal_contribution or loan_payment) + sum(transfers into the account)
\* - sum(transfers out of the account + their fees); a transfer from A to B
\* changes the dashboard balance of A and of B.
C15_DashboardBalanceIdentity ==
  last.op = "dashboard" =>
    \A a \in DOMAIN last.accounts :
      last.accounts[a] =
        BalanceIdentity(a, {"expense", "debt_payment", "goal_contribution",
                            "loan_payment"})

\* the accounts of an owner that count in the portfolio total
InTotal(userId) ==
  {a \in DOMAIN accounts :
     /\ accounts[a] = userId
     /\ accountRow[a].isActive
     /\ accountRow[a].includeInTotal}

\* C16: every total portfolio balance reported (accounts list, dashboard,
\* dashboard summary) is the sum of the current balances of exactly the
\* accounts of the owner that are active and have includeInTotal set,
\* restricted on the dashboard to the configured balanceAccountIds when
\* that list is not empty; an inactive account or one with
\* includeInTotal = false never contributes.
C16_TotalOverIncludedAccounts ==
  /\ last.op = "accounts" =>
       last.totalBalance = SumBalance(last.accounts, InTotal(last.userId))
  /\ last.op = "dashboard" =>
       LET ids == dashboardConfig[last.userId].balanceAccountIds
           chosen == IF ids # NoIds THEN InTotal(last.userId) \cap ids
                     ELSE InTotal(last.userId)
       IN last.totalBalance =
            SumBalance([a \in chosen |->
                          calculateAccountBalance(a, last.userId,
                             accountRow[a].initialBalance)], chosen)
  /\ last.op = "summary" =>
       last.totalBalance =
         SumBalance([a \in InTotal(last.userId) |->
                       calculateAccountBalance(a, last.userId,
                          accountRow[a].initialBalance)], InTotal(last.userId))

\* ------------------------------------------------------------ C17
\* C17: when a settle of a payment with a linked account has completed,
\* every balance projection of that account (accounts list, single
\* account, dashboard) is lower than it was immediately before the settle
\* by exactly paidAmount, and the payment is reported paid in the same
\* state.
C17_SettlementLowersBalance ==
  [][(/\ SettleStep
      /\ last'.code = 200
      /\ scheduledPayments[last'.id].accountId # NoId) =>
       \A a \in DOMAIN accounts, paid \in {scheduledPayments'[last'.id].paidAmount} :
         a = scheduledPayments[last'.id].accountId =>
           /\ scheduledPayments'[last'.id].status = "paid"
           /\ accountsListBalance(a, accounts[a])' =
                accountsListBalance(a, accounts[a]) - paid
           /\ accountBalance(a, accounts[a])' =
                accountBalance(a, accounts[a]) - paid
           /\ calculateAccountBalance(a, accounts[a], accountRow[a].initialBalance)' =
                calculateAccountBalance(a, accounts[a], accountRow[a].initialBalance)
                  - paid
     ]_vars

\* ------------------------------------------------------------ C18 - C20
Range(f) == {f[x] : x \in DOMAIN f}

\* what a view reports for a goal, a debt or a loan
Projection(target, accumulated, remaining, progress) ==
  [target |-> target, accumulated |-> accumulated, remaining |-> remaining,
   progress |-> progress]

OfGoal(r) ==
  Projection(r.targetAmount, r.currentAmount, r.remainingAmount, r.progress)

OfDebt(r) ==
  Projection(r.principalAmount, r.paidAmount, r.remainingAmount, r.progress)

OfLoan(r) ==
  Projection(r.principalAmount, r.receivedAmount, r.remainingAmount, r.progress)

OfDashboardGoal(r) ==
  Projection(r.targetAmount, r.currentAmount, r.remaining, r.progress)

\* the projections in the last response
Projections ==
  CASE last.op = "goals" -> {OfGoal(r) : r \in Range(last.goals)}
    [] last.op = "goal" /\ last.code = 200 -> {OfGoal(last.goal)}
    [] last.op = "debts" -> {OfDebt(r) : r \in Range(last.debts)}
    [] last.op = "debt" /\ last.code = 200 -> {OfDebt(last.debt)}
    [] last.op = "loans" -> {OfLoan(r) : r \in Range(last.loans)}
    [] last.op = "loan" /\ last.code = 200 -> {OfLoan(last.loan)}
    [] last.op = "dashboard" -> {OfDashboardGoal(r) : r \in Range(last.goals)}
    [] OTHER -> {}

\* C18: in every view that reports progress for a goal, debt or loan (goals
\* list and detail, debts list and detail, loans list and detail, dashboard
\* goals) the progress is between 0 and 100, and it is 100 if and only if
\* the accumulated amount has reached the target.
C18_ProgressClamped ==
  \A p \in Projections :
    /\ p.progress.den > 0
    /\ 0 <= p.progress.num
    /\ p.progress.num <= 100 * p.progress.den
    /\ p.progress.num = 100 * p.progress.den <=> p.accumulated >= p.target

\* C19: in every view that reports a remaining amount for a goal, debt or
\* loan, remaining = max(0, target - accumulated): it is never negative,
\* also when the payments or contributions exceed the target or principal.
C19_RemainingNeverNegative ==
  \A p \in Projections :
    p.remaining = IF p.target - p.accumulated > 0
                  THEN p.target - p.accumulated ELSE 0

\* C20: for a goal with a target date, suggestedMonthlyAmount is
\* remaining / max(1, monthsBetween(now, targetDate)) with
\* remaining = max(0, target - current): never negative, 0 once the
\* contributions reach the target, and equal to remaining when the target
\* date is in the current month or in the past.
C20_SuggestedMonthlyAmount ==
  last.op = "goals" =>
    \A g \in DOMAIN last.goals :
      goalRow[g].targetDate # NoDate =>
        LET r == last.goals[g]
            s == r.suggestedMonthlyAmount
            remaining == IF r.targetAmount - r.currentAmount > 0
                         THEN r.targetAmount - r.currentAmount ELSE 0
            between == MonthNumber(goalRow[g].targetDate) - MonthNumber(last.today)
            months == IF between > 1 THEN between ELSE 1
        IN /\ s.den > 0
           /\ s.num * months = remaining * s.den
           /\ s.num >= 0
           /\ r.currentAmount >= r.targetAmount => s.num = 0
           /\ between <= 0 => s.num = remaining * s.den

\* ------------------------------------------------------------ C22 - C23
\* a stored link is sound when it is empty or names a row of the owner of
\* the record that carries it
LinkOk(ref, table, userId) ==
  ref = NoId \/ (ref \in DOMAIN table /\ table[ref] = userId)

\* C22: a create or update of a ledger entry or scheduled payment that
\* names an account, category, debt, loan or goal which does not exist for
\* the requester (one of another owner included) is answered NotFound and
\* stores nothing; so in every reachable state each link stored on a ledger
\* entry or scheduled payment points to an entity of the owner of the record.
C22_LinksStayWithinOwner ==
  /\ \A id \in DOMAIN scheduledPayments :
       LET p == scheduledPayments[id]
       IN /\ LinkOk(p.accountId, accounts, p.userId)
          /\ LinkOk(p.categoryId, categories, p.userId)
          /\ LinkOk(p.debtId, debts, p.userId)
          /\ LinkOk(p.loanId, loans, p.userId)
  /\ \A id \in DOMAIN transactions :
       LET t == transactions[id]
       IN /\ LinkOk(t.accountId, accounts, t.userId)
          /\ LinkOk(t.categoryId, categories, t.userId)
          /\ LinkOk(t.debtId, debts, t.userId)
          /\ LinkOk(t.loanId, loans, t.userId)
          /\ LinkOk(t.goalId, goals, t.userId)

\* paidDate and paidAmount are both set
HasPaidFields(p) == p.paidDate # NoDate /\ p.paidAmount # NoAmount

\* C23: in every reachable state a scheduled payment has paidDate and
\* paidAmount set if and only if its status is paid; a payment is created
\* pending with both empty, only a successful settle sets them, and no other
\* operation (sweep, cancel, PATCH) sets, changes or clears them.
C23_PaidFieldsIffPaid ==
  /\ [](\A id \in DOMAIN scheduledPayments :
          HasPaidFields(scheduledPayments[id])
            <=> scheduledPayments[id].status = "paid")
  /\ [][/\ \A id \in Added(scheduledPayments, scheduledPayments') :
             /\ scheduledPayments'[id].status = "pending"
             /\ scheduledPayments'[id].paidDate = NoDate
             /\ scheduledPayments'[id].paidAmount = NoAmount
        /\ \A id \in DOMAIN scheduledPayments \cap DOMAIN scheduledPayments' :
             \/ /\ scheduledPayments'[id].paidDate = scheduledPayments[id].paidDate
                /\ scheduledPayments'[id].paidAmount = scheduledPayments[id].paidAmount
             \/ SettleStep /\ last'.code = 200 /\ last'.id = id
       ]_vars

\* ------------------------------------------------------------ C29
\* C29: for every ledger state the balance GET /accounts/:id reports for an
\* account equals the balance GET /accounts reports for the same account,
\* also when the account is the source or the destination of transfers.
C29_SingleAccountMatchesList ==
  /\ \A a \in DOMAIN accounts :
       accountBalance(a, accounts[a]) = accountsListBalance(a, accounts[a])
  /\ last.op = "account" /\ last.code = 200 =>
       last.balance = accountsWithBalances(last.userId, TRUE).accounts[last.accountId]
  /\ last.op = "accounts" =>
       \A a \in DOMAIN last.accounts :
         last.accounts[a] = accountBalance(a, last.userId)

\* ------------------------------------------------------------ C30
\* C30: settling a scheduled payment linked to a debt or a loan leaves the
\* debt's paidAmount, remainingAmount and progress and the loan's
\* receivedAmount unchanged, in the debt and loan views and in the debts
\* summary of the dashboard: the ledger entry settlement posts is of type
\* expense and carries no debtId or loanId.
C30_SettlementLeavesDebtProgress ==
  [][(/\ SettleStep
      /\ last'.code = 200
      /\ \/ scheduledPayments[last'.id].debtId # NoId
         \/ scheduledPayments[last'.id].loanId # NoId) =>
       /\ \A id \in Added(transactions, transactions') :
            /\ transactions'[id].type = "expense"
            /\ transactions'[id].debtId = NoId
            /\ transactions'[id].loanId = NoId
       /\ \A u \in Users :
            /\ \A d \in DOMAIN debts :
                 debtWithPaidAmount(d, u)' = debtWithPaidAmount(d, u)
            /\ \A l \in DOMAIN loans :
                 loanWithReceivedAmount(l, u)' = loanWithReceivedAmount(l, u)
            /\ debtsSummary(u)' = debtsSummary(u)
     ]_vars

\* a payment linked to a loan and an account was settled and its ledger
\* entry posted; the loan still has nothing received
C30_Witness ==
  /\ last.op = "pay" /\ last.code = 200
  /\ scheduledPayments[last.id].loanId = "l1"
  /\ last.transaction \in DOMAIN transactions
  /\ transactions[last.transaction].accountId = scheduledPayments[last.id].accountId
  /\ loanWithReceivedAmount("l1", last.userId).receivedAmount = 0

\* ------------------------------------------------------------ C25
\* the number of calendar days of the range [start, end]
DaysIn(range) == DayNumber(range.end) - DayNumber(range.start) + 1

\* C25: for every period and every reference date the previous period of
\* the trends computation is [start - length, start - 1 day]: it is not
\* empty, ends the day before the current period starts, does not overlap
\* the current period, and covers as many calendar days as the current
\* period [start, end].
C25_PreviousPeriodOfEqualLength ==
  last.op = "trends" =>
    LET current == last.currentRange
        previous == last.previousRange
    IN /\ previous.start = AddDays(current.start, -DaysIn(current))
       /\ previous.end = AddDays(current.start, -1)
       /\ previous.start <= previous.end
       /\ previous.end < current.start
       /\ DaysIn(previous) = DaysIn(current)

\* ------------------------------------------------------------ C26
\* the rows of table user_settings
SettingsRows ==
  {[userId |-> u, dashboardConfig |-> dashboardConfig[u]] :
     u \in DOMAIN dashboardConfig}

\* C26: updating the dashboard configuration is a partial patch: every key
\* the patch does not supply keeps its previously stored value; and after
\* any sequence of reads, patches and resets an owner has at most one
\* settings record.
C26_PatchKeepsUnsuppliedKeys ==
  /\ [](\A u \in Users : Cardinality({r \in SettingsRows : r.userId = u}) <= 1)
  /\ [][(/\ Request
         /\ last'.op = "patchDashboard"
         /\ last'.code = 200
         /\ last'.userId \in DOMAIN dashboardConfig) =>
          \A k \in ConfigKeys \ last'.supplied :
            dashboardConfig'[last'.userId][k] = dashboardConfig[last'.userId][k]
       ]_vars

\* ------------------------------------------------------------ C27 - C28
\* the step is the UPDATE of an overdue sweep that ran between the awaits
\* of the handlers in flight
SweepUpdateStep ==
  /\ last'.op = "sweep"
  /\ inflight' = inflight
  /\ clock' = clock

\* C27: under every interleaving of a sweep with a settle or a cancel of
\* the same payment, a payment written as paid or cancelled is never
\* afterwards overdue; the sweep changes only pending rows, so it never
\* reverts a settle or cancel, and a settle or cancel that has passed its
\* status check still performs its update with its own values afterwards.
C27_SweepSafeWithSettleAndCancel ==
  /\ [](\A h \in Handlers :
          inflight[h].pc \in {"update", "cancelUpdate"} =>
            inflight[h].id \in DOMAIN scheduledPayments)
  /\ [][/\ \A id \in DOMAIN scheduledPayments :
             scheduledPayments[id].status \in {"paid", "cancelled"} =>
               /\ id \in DOMAIN scheduledPayments'
               /\ scheduledPayments'[id].status # "overdue"
        /\ SweepUpdateStep =>
             \A id \in DOMAIN scheduledPayments :
               \/ scheduledPayments'[id] = scheduledPayments[id]
               \/ /\ scheduledPayments[id].status = "pending"
                  /\ scheduledPayments'[id] =
                       [scheduledPayments[id] EXCEPT !.status = "overdue"]
        /\ \A h \in Handlers :
             /\ (inflight[h].pc = "update" /\ inflight'[h].pc # "update") =>
                  /\ scheduledPayments'[inflight[h].id].status = "paid"
                  /\ scheduledPayments'[inflight[h].id].paidDate
                       = inflight[h].paidDate
                  /\ scheduledPayments'[inflight[h].id].paidAmount
                       = inflight[h].paidAmount
             /\ (inflight[h].pc = "cancelUpdate" /\ inflight'[h].pc # "cancelUpdate") =>
                  /\ scheduledPayments'[inflight[h].id].status = "cancelled"
                  /\ inflight'[h].code = 200
       ]_vars

\* a settle read the payment as pending, the sweep then made it overdue,
\* and the settle has written it paid and answered 200
C27_Witness ==
  \E h \in Handlers :
    /\ inflight[h].pc = "done" /\ inflight[h].code = 200
    /\ inflight[h].payment.status = "pending"
    /\ last.op = "sweep" /\ last.rows = {inflight[h].id}
    /\ scheduledPayments[inflight[h].id].status = "paid"

\* a settle (handler s) and a cancel (handler c) of the same payment of the
\* requester have both answered
BothAnswered(s, c) ==
  /\ s # c
  /\ inflight[s].pc = "done" /\ inflight[s].code \in {200, 400}
  /\ inflight[c].pc = "cancelDone" /\ inflight[c].code \in {200, 400}
  /\ inflight[s].id = inflight[c].id
  /\ inflight[s].userId = inflight[c].userId

\* C28: when a settle and a cancel of the same pending or overdue payment
\* interleave at the store round trips, exactly one of the two takes effect;
\* a ledger entry or recurrence clone of the settlement exists only if the
\* payment ends paid, a payment that ends paid was settled, and the payment
\* never ends cancelled while a ledger entry posted by its settlement exists.
C28_SettleCancelConsistent ==
  \A s \in Handlers, c \in Handlers :
    BothAnswered(s, c) =>
      LET payment == scheduledPayments[inflight[s].id]
      IN /\ (inflight[s].code = 200) # (inflight[c].code = 200)
         /\ (inflight[s].transaction # 0 \/ inflight[s].nextPayment # 0) =>
              payment.status = "paid"
         /\ payment.status = "paid" => inflight[s].code = 200
         /\ ~(/\ payment.status = "cancelled"
              /\ inflight[s].transaction \in DOMAIN transactions)

\* ------------------------------------------------------------ C24
\* what a ledger entry adds to the balance of an account in a view that
\* debits the given types
EntryOn(r, a, debitTypes) ==
  IF r.accountId = a /\ r.userId = accounts[a]
  THEN IF r.type = "income" THEN r.amount
       ELSE IF r.type \in debitTypes THEN 0 - r.amount ELSE 0
  ELSE 0

\* what a transfer adds to the balance of an account
TransferOn(t, a) ==
  IF t.userId = accounts[a]
  THEN (IF t.toAccountId = a THEN t.amount ELSE 0)
         - (IF t.fromAccountId = a THEN t.amount + t.fee ELSE 0)
  ELSE 0

\* what a ledger entry adds to the amount accumulated for a goal, debt or loan
LinkedOn(r, u, column, ref, type) ==
  IF r.userId = u /\ r[column] = ref /\ r.type = type THEN r.amount ELSE 0

AllDebits == {"expense", "debt_payment", "goal_contribution", "loan_payment"}

\* the step moves every derived value by sign times the share of the row:
\* listShare, oneShare and dashShare are the shares of the row in the
\* balance of an account in GET /accounts, GET /accounts/:id and the
\* dashboard, r is the row when it is a ledger entry
DerivedMoveBy(sign, r, listShare(_), oneShare(_), dashShare(_)) ==
  /\ \A a \in DOMAIN accounts : \A u \in {accounts[a]} :
       /\ accountsListBalance(a, u)' =
            accountsListBalance(a, u) + sign * listShare(a)
       /\ accountBalance(a, u)' = accountBalance(a, u) + sign * oneShare(a)
       /\ calculateAccountBalance(a, u, accountRow[a].initialBalance)' =
            calculateAccountBalance(a, u, accountRow[a].initialBalance)
              + sign * dashShare(a)
  /\ \A u \in Users :
       /\ accountsWithBalances(u, TRUE).totalBalance' =
            accountsWithBalances(u, TRUE).totalBalance
              + sign * SumBalance([a \in InTotal(u) |-> listShare(a)], InTotal(u))
       /\ \A counted \in {DOMAIN dashboardBalance(u, defaultConfig).accounts} :
            /\ summaryBalance(u).totalBalance' =
                 summaryBalance(u).totalBalance
                   + sign * SumBalance([a \in counted |-> dashShare(a)], counted)
            /\ dashboardBalance(u, defaultConfig).totalBalance' =
                 dashboardBalance(u, defaultConfig).totalBalance
                   + sign * SumBalance([a \in counted |-> dashShare(a)], counted)
       /\ \A g \in DOMAIN goals :
            \A moved \in {sign * LinkedOn(r, u, "goalId", g, "goal_contribution")} :
              /\ goalDetail(g, u).currentAmount' =
                   goalDetail(g, u).currentAmount + moved
              /\ moved = 0 => goalDetail(g, u)' = goalDetail(g, u)
       /\ \A d \in DOMAIN debts :
            \A moved \in {sign * LinkedOn(r, u, "debtId", d, "debt_payment")} :
              /\ debtWithPaidAmount(d, u).paidAmount' =
                   debtWithPaidAmount(d, u).paidAmount + moved
              /\ debtWithPaidAmount(d, u).remainingAmount' =
                   debtWithPaidAmount(d, u).remainingAmount - moved
              /\ moved = 0 => debtWithPaidAmount(d, u)' = debtWithPaidAmount(d, u)
       /\ \A l \in DOMAIN loans :
            \A moved \in {sign * LinkedOn(r, u, "loanId", l, "loan_payment")} :
              /\ loanWithReceivedAmount(l, u).receivedAmount' =
                   loanWithReceivedAmount(l, u).receivedAmount + moved
              /\ moved = 0 =>
                   loanWithReceivedAmount(l, u)' = loanWithReceivedAmount(l, u)

NoShare(a) == 0

NoEntry == [userId |-> NoId, accountId |-> NoId, type |-> "none", amount |-> 0,
            debtId |-> NoId, loanId |-> NoId, goalId |-> NoId]

\* C24: deleting a ledger entry or a transfer removes exactly that row, and
\* every derived value (account balance in each view, portfolio total,
\* amount accumulated and progress of goals, debts and loans) moves back by
\* exactly what the creation of the row moved it by, so that create followed
\* by delete returns each of them to its value before the creation.
C24_DeleteUndoesCreate ==
  [][/\ (Request /\ last'.op = "transaction" /\ last'.code = 201) =>
          LET r == transactions'[last'.id]
              listShare(a) == EntryOn(r, a, {"expense"})
              dashShare(a) == EntryOn(r, a, AllDebits)
          IN /\ last'.id \notin DOMAIN transactions
             /\ transactions' = InsertTransaction(transactions, last'.id, r)
             /\ DerivedMoveBy(1, r, listShare, listShare, dashShare)
     /\ (Request /\ last'.op = "deleteTransaction" /\ last'.code = 200) =>
          LET r == transactions[last'.id]
              listShare(a) == EntryOn(r, a, {"expense"})
              dashShare(a) == EntryOn(r, a, AllDebits)
          IN /\ last'.id \notin DOMAIN transactions'
             /\ transactions = InsertTransaction(transactions', last'.id, r)
             /\ DerivedMoveBy(-1, r, listShare, listShare, dashShare)
     /\ (Request /\ last'.op = "transfer" /\ last'.code = 201) =>
          LET t == transfers'[last'.id]
              listShare(a) == TransferOn(t, a)
          IN /\ transfers' = Append(transfers, t)
             /\ DerivedMoveBy(1, NoEntry, listShare, NoShare, NoShare)
     /\ (Request /\ last'.op = "deleteTransfer" /\ last'.code = 200) =>
          LET t == transfers[last'.id]
              listShare(a) == TransferOn(t, a)
          IN /\ Len(transfers') = Len(transfers) - 1
             /\ \A i \in DOMAIN transfers' :
                  transfers'[i] = transfers[IF i < last'.id THEN i ELSE i + 1]
             /\ DerivedMoveBy(-1, NoEntry, listShare, NoShare, NoShare)
    ]_vars

\* a transfer with a fee was created and then deleted: the table is empty
\* again and the two accounts are back at their initial balances
C24_Witness ==
  /\ last.op = "deleteTransfer" /\ last.code = 200
  /\ transfers = << >>
  /\ served >= 2
  /\ accountsListBalance("a1", "u1") = accountRow["a1"].initialBalance
       + SumAmount(transactions, Entries("a1", {"income"}))
       - SumAmount(transactions, Entries("a1", {"expense"}))

\* ------------------------------------------------------------ C21
\* everything the program derives for an owner, and the owner's own rows
OwnerView(owner) ==
  LET own(table) == {x \in DOMAIN table : table[x] = owner}
  IN [payments |->
        [id \in {i \in DOMAIN scheduledPayments :
                   scheduledPayments[i].userId = owner} |-> scheduledPayments[id]],
      entries |->
        [id \in {i \in DOMAIN transactions :
                   transactions[i].userId = owner} |-> transactions[id]],
      transfers |-> SelectSeq(transfers, LAMBDA t : t.userId = owner),
      accountsList |-> accountsWithBalances(owner, TRUE),
      account |-> [a \in own(accounts) |-> accountBalance(a, owner)],
      dashboard |-> dashboardBalance(owner, dashboardConfig[owner]),
      goals |-> [g \in own(goals) |-> goalWithProgress(g, owner, today)],
      dashboardGoals |-> dashboardGoals(owner),
      debts |-> [d \in own(debts) |-> debtWithPaidAmount(d, owner)],
      loans |-> [l \in own(loans) |-> loanWithReceivedAmount(l, owner)]]

====
